---------------------------- MODULE Spec2Model ----------------------------
(***************************************************************************)
(* xecli: the tool registry and release synchronisation engine of          *)
(* src/xecli/__init__.py (install, update, update --all, remove, backup    *)
(* create / restore, and the three JSON stores they read and write).       *)
(*                                                                         *)
(* Text is modelled as a sequence of tokens, so that string concatenation  *)
(* (file names, paths, synthetic tags) is concatenation of sequences.      *)
(* The empty sequence stands for Python's None / "" (both are falsy in the *)
(* tests `if branch:` and `local_version or 'new'`).                       *)
(* A JSON object is a function whose DOMAIN is the set of keys present.    *)
(* A file on disk is a record: absent, malformed, or a JSON document with  *)
(* its value and its layout ("dump" = the bytes json.dump(.., indent=2)    *)
(* produces, "hand" = any other byte sequence with the same value).        *)
(*                                                                         *)
(* Fault model: network requests may fail; a store file may be absent or   *)
(* malformed; an artifact file may be missing.  Writes to the store files  *)
(* succeed (a write refused by the file system is not part of Spec).       *)
(***************************************************************************)
EXTENDS Integers, Sequences, FiniteSets, TLC

VARIABLES
    system,      \* platform.system().lower() of the host
    remote,      \* per repository: what releases/latest currently answers
    toolsFile,   \* TOOLS_JSON
    configFile,  \* CONFIG_JSON
    aliasFile,   \* ALIASES_JSON
    backups,     \* BACKUP_DIR: snapshot name -> [mtime, doc]
    disk,        \* artifact files: path -> "full" | "partial"
    clock,       \* datetime.now(), one tick per command or outside event
    run,         \* the running single-tool pipeline (update_single/download_update)
    batch,       \* the running `update --all` loop
    last         \* what the last finished command reported

vars == <<system, remote, toolsFile, configFile, aliasFile, backups, disk,
          clock, run, batch, last>>

stores == <<toolsFile, configFile, aliasFile>>

\* the keys of the three stores in a snapshot document, in the order backup_create
\* loads them and backup_restore writes them back
StoreKeys == <<"tools", "config", "aliases">>

(***************************************************************************)
(* Bounds of the model.                                                    *)
(***************************************************************************)
\* assets a release lists
MaxAssets == 3
\* tool commands (install, update, remove) and remote events happen within the
\* first MaxOps ticks of the clock
MaxOps == 3
\* store and backup commands, and edits by hand, within the first MaxStoreOps ticks
MaxStoreOps == 4
\* snapshot files the backups directory may hold
MaxBackups == 2

\* no value: Python's None, or the empty string
None == <<>>

EmptyMap == <<>>

\* the repositories of the organisation that are installed in the model
Tools == {<<"alpha">>, <<"beta">>}

\* branch names given to --branch
Branches == {<<"dev">>}

\* values given to `config set download_dir`
Dirs == {"d1"}

\* where Path.cwd() points
Cwd == "cwd"

EXCLUDED_REPOS == {<<".github">>}

\* names given on the command line
Names == Tools \cup EXCLUDED_REPOS

(***************************************************************************)
(* The remote: responses of releases/latest.                               *)
(***************************************************************************)
AssetLinux == [name |-> <<"alpha-linux", ".tar", ".gz">>, browser_download_url |-> "u-linux"]
AssetWin == [name |-> <<"alpha", ".EXE">>, browser_download_url |-> "u-win"]
AssetZip == [name |-> <<"src", ".zip">>, browser_download_url |-> "u-zip"]

\* a tagged release with one asset per platform
RelV1 == [tag_name |-> <<"v1">>, assets |-> <<AssetLinux, AssetWin>>, zipball_url |-> "z1"]
\* a tagged release without assets: only the source archive
RelV2 == [tag_name |-> <<"v2">>, assets |-> <<>>, zipball_url |-> "z2"]
\* a release document with no tag, no asset and no source archive
RelBare == [assets |-> <<>>]

Releases == {RelV1, RelV2, RelBare}

\* asset lists of any content, for the resolver: at most MaxAssets assets, whose
\* names end in the suffixes the resolver looks for, in either case, or in none
AssetNames ==
    {<<"alpha", ".exe">>, <<"setup", ".EXE">>, <<"alpha", ".tar", ".gz">>,
     <<"alpha", ".zip">>, <<"notes", ".txt">>}

\* the download URL of the i-th asset of a release
UrlAt == <<"a1", "a2", "a3", "a4", "a5">>

MkAssets(names) ==
    [i \in 1..Len(names) |-> [name |-> names[i], browser_download_url |-> UrlAt[i]]]

\* a release document: tag_name and zipball_url may be missing
MkRelease(names, tagged, zipped) ==
    LET a == [assets |-> MkAssets(names)]
        b == IF tagged THEN a @@ [tag_name |-> <<"v1">>] ELSE a
    IN  IF zipped THEN b @@ [zipball_url |-> "z1"] ELSE b

(***************************************************************************)
(* Files and JSON documents.                                               *)
(***************************************************************************)
Absent == [kind |-> "absent"]

Malformed == [kind |-> "malformed"]

\* json.dump(value, f, indent=2): the bytes written are the canonical layout
json_dump(value) == [kind |-> "json", fmt |-> "dump", val |-> value]

\* the same value in another layout (a file edited by hand)
HandWritten(value) == [kind |-> "json", fmt |-> "hand", val |-> value]

\* json.load: raises json.JSONDecodeError on a malformed file
json_load_ok(file) == file.kind = "json"

\* load_tools / load_config / load_aliases: one body, three paths
load_store(file) ==
    IF file.kind = "absent" THEN EmptyMap
    ELSE IF json_load_ok(file) THEN file.val
    ELSE EmptyMap

\* the records a load appends to the log: one ERROR record for a file that
\* does not parse, nothing otherwise
load_log(file) ==
    IF file.kind = "absent" THEN <<>>
    ELSE IF json_load_ok(file) THEN <<>>
    ELSE <<"ERROR">>

load_tools == load_store(toolsFile)

load_config == load_store(configFile)

load_aliases == load_store(aliasFile)

\* save_tools / save_config / save_aliases: rewrite the whole document
save_store(value) == json_dump(value)

\* dict.get(key, default)
Get(obj, key, default) == IF key \in DOMAIN obj THEN obj[key] ELSE default

\* dict.pop(key)
Pop(obj, key) == [k \in (DOMAIN obj) \ {key} |-> obj[k]]

\* obj[key] = value
Put(obj, key, value) == [k \in (DOMAIN obj) \cup {key} |-> IF k = key THEN value ELSE obj[k]]

get_download_dir ==
    LET download_dir == Get(load_config, "download_dir", "") IN
    IF download_dir # "" THEN download_dir ELSE Cwd

\* download_dir / file_name
PathOf(dir, file_name) == <<dir, "/">> \o file_name


(***************************************************************************)
(* Text helpers.                                                           *)
(***************************************************************************)
\* str.lower() on one token
LowerTok(t) ==
    CASE t = ".EXE" -> ".exe"
      [] t = ".ZIP" -> ".zip"
      [] OTHER -> t

\* str.lower()
Lower(s) == [i \in 1..Len(s) |-> LowerTok(s[i])]

\* str.endswith(suffix)
EndsWith(s, suffix) ==
    /\ Len(s) >= Len(suffix)
    /\ SubSeq(s, Len(s) - Len(suffix) + 1, Len(s)) = suffix

\* f"branch-{branch}"
BranchTag(branch) == <<"branch-">> \o branch

(***************************************************************************)
(* download_update, release mode: tag, asset selection, file name.         *)
(***************************************************************************)
\* the test of the loop body for one asset
AssetMatches(sys, a) ==
    LET n == Lower(a.name) IN
    IF sys = "windows" /\ EndsWith(n, <<".exe">>) THEN TRUE
    ELSE sys # "windows" /\ (EndsWith(n, <<".tar", ".gz">>) \/ EndsWith(n, <<".zip">>))

\* FirstMatchFrom with a slip: the loop has no break, the last match is kept
FirstMatchFrom_Last(sys, assets, i) ==
    LET M == {j \in 1..Len(assets) : AssetMatches(sys, assets[j])}
    IN  IF M = {} THEN 0 ELSE CHOOSE j \in M : \A h \in M : h <= j

\* for a in assets: ... break   (0: no asset matched)
RECURSIVE FirstMatchFrom(_, _, _)
FirstMatchFrom(sys, assets, i) ==
    IF i > Len(assets) THEN 0
    ELSE IF AssetMatches(sys, assets[i]) THEN i
    ELSE FirstMatchFrom(sys, assets, i + 1)

asset_to_download(sys, release) == FirstMatchFrom(sys, Get(release, "assets", <<>>), 1)

\* latest_tag with a slip: another literal stands for a missing tag
latest_tag_Unknown(release) == Get(release, "tag_name", <<"unknown">>)

\* release.get("tag_name", "latest")
latest_tag(release) == Get(release, "tag_name", <<"latest">>)

\* ResolveRelease with a slip: a missing source archive is not noticed
ResolveRelease_NoArchiveTest(sys, name, release) ==
    LET tag_name == latest_tag(release)
        k == asset_to_download(sys, release)
    IN  IF k # 0
        THEN [ok |-> TRUE, tag_name |-> tag_name,
              dl_url |-> release.assets[k].browser_download_url,
              file_name |-> name \o <<"-">> \o tag_name \o <<"-">> \o release.assets[k].name]
        ELSE [ok |-> TRUE, tag_name |-> tag_name,
              dl_url |-> Get(release, "zipball_url", ""),
              file_name |-> name \o <<"-">> \o tag_name \o <<".zip">>]

\* the release-mode target: [ok, tag_name, file_name, dl_url]
ResolveRelease(sys, name, release) ==
    LET tag_name == latest_tag(release)
        k == asset_to_download(sys, release)
    IN  IF k # 0
        THEN [ok |-> TRUE, tag_name |-> tag_name,
              dl_url |-> release.assets[k].browser_download_url,
              file_name |-> name \o <<"-">> \o tag_name \o <<"-">> \o release.assets[k].name]
        ELSE IF Get(release, "zipball_url", "") = ""
        THEN [ok |-> FALSE, tag_name |-> tag_name, dl_url |-> "", file_name |-> None]
        ELSE [ok |-> TRUE, tag_name |-> tag_name,
              dl_url |-> release.zipball_url,
              file_name |-> name \o <<"-">> \o tag_name \o <<".zip">>]

\* ResolveBranch with a slip: the branch itself is taken as the tag
ResolveBranch_BareTag(name, branch) ==
    [ok |-> TRUE, tag_name |-> branch,
     dl_url |-> "archive",
     file_name |-> name \o <<"-">> \o branch \o <<".zip">>]

\* the branch-mode target
ResolveBranch(name, branch) ==
    [ok |-> TRUE, tag_name |-> BranchTag(branch),
     dl_url |-> "archive",
     file_name |-> name \o <<"-">> \o branch \o <<".zip">>]

\* ToolRecord with a slip: the file name is recorded, not the path written to
ToolRecord_FileName(tag_name, dest_path, sys, now, branch) ==
    LET base == [version |-> tag_name, file |-> Tail(Tail(dest_path)), os |-> sys,
                 installed_at |-> now]
    IN  IF branch # None THEN Put(base, "branch", branch) ELSE base

\* the record download_update stores for a tool
ToolRecord(tag_name, dest_path, sys, now, branch) ==
    LET base == [version |-> tag_name, file |-> dest_path, os |-> sys, installed_at |-> now]
    IN  IF branch # None THEN Put(base, "branch", branch) ELSE base

(***************************************************************************)
(* State of the running command.                                           *)
(***************************************************************************)
Idle == [phase |-> "Idle"]

NoBatch == [active |-> FALSE]

\* no command runs
Quiet == run.phase = "Idle" /\ ~batch.active

\* one more tool command or remote event fits in the behaviour
Tick == clock < MaxOps /\ clock' = clock + 1

\* one more store or backup command, or edit by hand, fits in the behaviour
TickStore == clock < MaxStoreOps /\ clock' = clock + 1

\* the pipeline of one tool as it starts: update_single or download_update
StartRun(op, phase, name, branch, at) ==
    [phase |-> phase, op |-> op, name |-> name, branch |-> branch,
     local |-> None, seen |-> None, tag |-> None, dest |-> None, url |-> "",
     nMeta |-> 0, nDl |-> 0, out |-> "", reason |-> "",
     at |-> at]

\* RecordFailure with a slip: the except clause swallows the failure
RecordFailure_Silent(b, name, reason) == b

\* the except clause of the loop of `update --all`: the failure is reported with
\* its reason and the tool joins the list `failed`
RecordFailure(b, name, reason) ==
    [b EXCEPT !.failed = Append(@, name), !.reasons = Put(@, name, reason)]

\* Finish with a slip: the first failure ends the loop of `update --all`
Finish_FailFast(r, out, reason) ==
    LET done == [r EXCEPT !.phase = IF out = "failed" THEN "Failed" ELSE "Done",
                          !.out = out, !.reason = reason]
        seen == [batch EXCEPT
                    !.attempted = Append(@, r.name),
                    !.outcomes = Put(@, r.name, out),
                    !.resolved = IF r.tag # None THEN Put(@, r.name, r.tag)
                                 ELSE IF r.seen # None THEN Put(@, r.name, r.seen)
                                 ELSE @]
    IN  /\ run' = Idle
        /\ IF batch.active
           THEN /\ batch' = IF out = "failed"
                             THEN [RecordFailure(seen, r.name, reason) EXCEPT !.todo = {}]
                             ELSE seen
                /\ last' = last
           ELSE /\ batch' = batch
                /\ last' = done

\* the pipeline of the current tool ends: inside `update --all` the loop goes on
\* with the next tool, whatever the outcome; otherwise the command ends.
\* `outcomes` and `resolved` keep, for each tool of the loop, how its pipeline
\* ended and the last tag it resolved.
Finish(r, out, reason) ==
    LET done == [r EXCEPT !.phase = IF out = "failed" THEN "Failed" ELSE "Done",
                          !.out = out, !.reason = reason]
        seen == [batch EXCEPT
                    !.attempted = Append(@, r.name),
                    !.outcomes = Put(@, r.name, out),
                    !.resolved = IF r.tag # None THEN Put(@, r.name, r.tag)
                                 ELSE IF r.seen # None THEN Put(@, r.name, r.seen)
                                 ELSE @]
    IN  /\ run' = Idle
        /\ IF batch.active
           THEN /\ batch' = IF out = "failed" THEN RecordFailure(seen, r.name, reason) ELSE seen
                /\ last' = last
           ELSE /\ batch' = batch
                /\ last' = done

Init ==
    /\ system \in {"linux", "windows"}
    /\ remote \in [Names -> {RelV1}]
    /\ toolsFile = Absent
    /\ configFile = Absent
    /\ aliasFile = Absent
    /\ backups = EmptyMap
    /\ disk = EmptyMap
    /\ clock = 0
    /\ run = Idle
    /\ batch = NoBatch
    /\ last = [op |-> "none", at |-> 0]

(***************************************************************************)
(* tools install                                                           *)
(***************************************************************************)
install(name, branch) ==
    /\ Quiet
    /\ Tick
    /\ IF name \in EXCLUDED_REPOS
       THEN /\ last' = [StartRun("install", "Failed", name, branch, clock + 1) EXCEPT
                            !.out = "failed", !.reason = "InvalidTarget"]
            /\ run' = run
       ELSE /\ run' = StartRun("install", "Resolving", name, branch, clock + 1)
            /\ last' = last
    /\ UNCHANGED <<system, remote, toolsFile, configFile, aliasFile, backups, disk, batch>>

(***************************************************************************)
(* tools update NAME                                                       *)
(***************************************************************************)
\* without a name and without --all the command ends with an error (`if not
\* name`); any other name, excluded or not, goes to update_single
update(name) ==
    /\ Quiet
    /\ Tick
    /\ IF name = None
       THEN /\ last' = [StartRun("update", "Failed", name, None, clock + 1) EXCEPT
                            !.out = "failed", !.reason = "InvalidTarget"]
            /\ run' = run
       ELSE /\ run' = StartRun("update", "Checking", name, None, clock + 1)
            /\ last' = last
    /\ UNCHANGED <<system, remote, toolsFile, configFile, aliasFile, backups, disk, batch>>

(***************************************************************************)
(* update_single: the metadata request and the comparison of versions      *)
(***************************************************************************)
\* update_single with a slip: the versions are not compared
update_single_NoCompare(ok) ==
    /\ run.phase = "Checking"
    /\ LET tools == load_tools
           local_version == Get(Get(tools, run.name, EmptyMap), "version", None)
           tag == latest_tag(remote[run.name])
           r == [run EXCEPT !.nMeta = @ + 1, !.local = local_version]
       IN  IF ~ok
           THEN Finish(r, "failed", "RemoteUnavailable")
           ELSE /\ run' = [r EXCEPT !.seen = tag, !.phase = "Resolving"]
                /\ UNCHANGED <<batch, last>>
    /\ UNCHANGED <<system, remote, toolsFile, configFile, aliasFile, backups, disk, clock>>

\* update_single with a slip: a tool without a record is refused
update_single_NotInstalled(ok) ==
    /\ run.phase = "Checking"
    /\ LET tools == load_tools
           local_version == Get(Get(tools, run.name, EmptyMap), "version", None)
           tag == latest_tag(remote[run.name])
           r == [run EXCEPT !.nMeta = @ + 1, !.local = local_version]
       IN  IF ~ok
           THEN Finish(r, "failed", "RemoteUnavailable")
           ELSE IF local_version = None
           THEN Finish(r, "failed", "NotInstalled")
           ELSE IF local_version = tag
           THEN Finish([r EXCEPT !.seen = tag], "uptodate", "")
           ELSE /\ run' = [r EXCEPT !.seen = tag, !.phase = "Resolving"]
                /\ UNCHANGED <<batch, last>>
    /\ UNCHANGED <<system, remote, toolsFile, configFile, aliasFile, backups, disk, clock>>

update_single(ok) ==
    /\ run.phase = "Checking"
    /\ LET tools == load_tools
           local_version == Get(Get(tools, run.name, EmptyMap), "version", None)
           tag == latest_tag(remote[run.name])
           r == [run EXCEPT !.nMeta = @ + 1, !.local = local_version]
       IN  IF ~ok
           THEN Finish(r, "failed", "RemoteUnavailable")
           ELSE IF local_version = tag
           THEN Finish([r EXCEPT !.seen = tag], "uptodate", "")
           ELSE /\ run' = [r EXCEPT !.seen = tag, !.phase = "Resolving"]
                /\ UNCHANGED <<batch, last>>
    /\ UNCHANGED <<system, remote, toolsFile, configFile, aliasFile, backups, disk, clock>>

(***************************************************************************)
(* download_update: resolution (lines 2041-2084)                           *)
(***************************************************************************)
\* download_update_resolve with a slip: a release with nothing to download
\* goes on to the download
download_update_resolve_Continue(ok) ==
    /\ run.phase = "Resolving"
    /\ (ok /\ run.branch = None) => run.name \in DOMAIN remote
    /\ IF run.branch # None
       THEN LET t == ResolveBranch(run.name, run.branch) IN
            /\ ok
            /\ run' = [run EXCEPT !.phase = "Downloading", !.tag = t.tag_name,
                                  !.dest = t.file_name, !.url = t.dl_url]
            /\ UNCHANGED <<batch, last>>
       ELSE LET t == ResolveRelease(system, run.name, remote[run.name])
                r == [run EXCEPT !.nMeta = @ + 1]
            IN  IF ~ok
                THEN Finish(r, "failed", "RemoteUnavailable")
                ELSE /\ run' = [r EXCEPT !.phase = "Downloading", !.tag = t.tag_name,
                                         !.dest = t.file_name, !.url = t.dl_url]
                     /\ UNCHANGED <<batch, last>>
    /\ UNCHANGED <<system, remote, toolsFile, configFile, aliasFile, backups, disk, clock>>

\* a request about a repository that does not exist is answered with an error
download_update_resolve(ok) ==
    /\ run.phase = "Resolving"
    /\ (ok /\ run.branch = None) => run.name \in DOMAIN remote
    /\ IF run.branch # None
       THEN LET t == ResolveBranch(run.name, run.branch) IN
            /\ ok
            /\ run' = [run EXCEPT !.phase = "Downloading", !.tag = t.tag_name,
                                  !.dest = t.file_name, !.url = t.dl_url]
            /\ UNCHANGED <<batch, last>>
       ELSE LET t == ResolveRelease(system, run.name, remote[run.name])
                r == [run EXCEPT !.nMeta = @ + 1]
            IN  IF ~ok
                THEN Finish(r, "failed", "RemoteUnavailable")
                ELSE IF ~t.ok
                THEN Finish(r, "failed", "NoReleaseFound")
                ELSE /\ run' = [r EXCEPT !.phase = "Downloading", !.tag = t.tag_name,
                                         !.dest = t.file_name, !.url = t.dl_url]
                     /\ UNCHANGED <<batch, last>>
    /\ UNCHANGED <<system, remote, toolsFile, configFile, aliasFile, backups, disk, clock>>

(***************************************************************************)
(* download_update: the streamed download (lines 2086-2118)                *)
(***************************************************************************)
\* download_update_fetch with a slip: once the new artifact is on disk the
\* artifact of the old record is unlinked
download_update_fetch_Cleanup(net) ==
    /\ run.phase = "Downloading"
    /\ net \in {"ok", "broken"} => run.name \in DOMAIN remote
    /\ LET dest_path == PathOf(get_download_dir, run.dest)
           r == [run EXCEPT !.nDl = @ + 1, !.dest = dest_path]
           old == Get(Get(load_tools, run.name, EmptyMap), "file", None)
       IN  CASE net = "ok" ->
                  /\ disk' = Put(IF old # dest_path THEN Pop(disk, old) ELSE disk,
                                 dest_path, "full")
                  /\ run' = [r EXCEPT !.phase = "Persisting"]
                  /\ UNCHANGED <<batch, last>>
             [] net = "refused" ->
                  /\ disk' = disk
                  /\ Finish(r, "failed", "RemoteUnavailable")
             [] net = "broken" ->
                  /\ disk' = Put(disk, dest_path, "partial")
                  /\ Finish(r, "failed", "RemoteUnavailable")
    /\ UNCHANGED <<system, remote, toolsFile, configFile, aliasFile, backups, clock>>

\* download_update_fetch with a slip: a file that exists is not overwritten,
\* the download goes to a new name
download_update_fetch_Rename(net) ==
    /\ run.phase = "Downloading"
    /\ net \in {"ok", "broken"} => run.name \in DOMAIN remote
    /\ LET path == PathOf(get_download_dir, run.dest)
           dest_path == IF path \in DOMAIN disk THEN path \o <<"(1)">> ELSE path
           r == [run EXCEPT !.nDl = @ + 1, !.dest = dest_path]
       IN  CASE net = "ok" ->
                  /\ disk' = Put(disk, dest_path, "full")
                  /\ run' = [r EXCEPT !.phase = "Persisting"]
                  /\ UNCHANGED <<batch, last>>
             [] net = "refused" ->
                  /\ disk' = disk
                  /\ Finish(r, "failed", "RemoteUnavailable")
             [] net = "broken" ->
                  /\ disk' = Put(disk, dest_path, "partial")
                  /\ Finish(r, "failed", "RemoteUnavailable")
    /\ UNCHANGED <<system, remote, toolsFile, configFile, aliasFile, backups, clock>>

\* download_update_fetch with a slip: a download that breaks midway is taken
\* for a complete one
download_update_fetch_Swallow(net) ==
    /\ run.phase = "Downloading"
    /\ net \in {"ok", "broken"} => run.name \in DOMAIN remote
    /\ LET dest_path == PathOf(get_download_dir, run.dest)
           r == [run EXCEPT !.nDl = @ + 1, !.dest = dest_path]
       IN  CASE net = "ok" ->
                  /\ disk' = Put(disk, dest_path, "full")
                  /\ run' = [r EXCEPT !.phase = "Persisting"]
                  /\ UNCHANGED <<batch, last>>
             [] net = "refused" ->
                  /\ disk' = disk
                  /\ Finish(r, "failed", "RemoteUnavailable")
             [] net = "broken" ->
                  /\ disk' = Put(disk, dest_path, "partial")
                  /\ run' = [r EXCEPT !.phase = "Persisting"]
                  /\ UNCHANGED <<batch, last>>
    /\ UNCHANGED <<system, remote, toolsFile, configFile, aliasFile, backups, clock>>

download_update_fetch(net) ==
    /\ run.phase = "Downloading"
    /\ net \in {"ok", "broken"} => run.name \in DOMAIN remote
    /\ LET dest_path == PathOf(get_download_dir, run.dest)
           r == [run EXCEPT !.nDl = @ + 1, !.dest = dest_path]
       IN  CASE net = "ok" ->
                  /\ disk' = Put(disk, dest_path, "full")
                  /\ run' = [r EXCEPT !.phase = "Persisting"]
                  /\ UNCHANGED <<batch, last>>
             [] net = "refused" ->
                  /\ disk' = disk
                  /\ Finish(r, "failed", "RemoteUnavailable")
             [] net = "broken" ->
                  /\ disk' = Put(disk, dest_path, "partial")
                  /\ Finish(r, "failed", "RemoteUnavailable")
    /\ UNCHANGED <<system, remote, toolsFile, configFile, aliasFile, backups, clock>>

(***************************************************************************)
(* download_update: the registry update (lines 2120-2130)                  *)
(***************************************************************************)
\* download_update_persist with a slip: inside `update --all` the registry is
\* written from the dict the loop loaded when it started
download_update_persist_Stale ==
    /\ run.phase = "Persisting"
    /\ LET tools == IF batch.active THEN batch.tools ELSE load_tools
           rec == ToolRecord(run.tag, run.dest, system, clock, run.branch)
       IN  toolsFile' = save_store(Put(tools, run.name, rec))
    /\ Finish(run, "ok", "")
    /\ UNCHANGED <<system, remote, configFile, aliasFile, backups, disk, clock>>

\* download_update_persist with a slip: a registry that does not parse ends
\* the command
download_update_persist_Corrupt ==
    /\ run.phase = "Persisting"
    /\ IF toolsFile.kind = "malformed"
       THEN /\ toolsFile' = toolsFile
            /\ Finish(run, "failed", "LocalStoreCorrupt")
       ELSE /\ LET tools == load_tools
                   rec == ToolRecord(run.tag, run.dest, system, clock, run.branch)
               IN  toolsFile' = save_store(Put(tools, run.name, rec))
            /\ Finish(run, "ok", "")
    /\ UNCHANGED <<system, remote, configFile, aliasFile, backups, disk, clock>>

download_update_persist ==
    /\ run.phase = "Persisting"
    /\ LET tools == load_tools
           rec == ToolRecord(run.tag, run.dest, system, clock, run.branch)
       IN  toolsFile' = save_store(Put(tools, run.name, rec))
    /\ Finish(run, "ok", "")
    /\ UNCHANGED <<system, remote, configFile, aliasFile, backups, disk, clock>>

(***************************************************************************)
(* tools check NAME                                                        *)
(***************************************************************************)
\* check_outcome with a slip: any installed tool is reported up-to-date
check_outcome_Installed(local_version, tag) ==
    IF local_version = None THEN "not_installed"
    ELSE "uptodate"

\* what check reports, given the recorded version and the latest tag
check_outcome(local_version, tag) ==
    IF local_version = None THEN "not_installed"
    ELSE IF local_version = tag THEN "uptodate"
    ELSE "outdated"

\* one metadata request, nothing written but the log; the report holds the
\* versions that are printed
check(name, ok) ==
    /\ Quiet
    /\ Tick
    /\ LET tools == load_tools
           local_version == Get(Get(tools, name, EmptyMap), "version", None)
           tag == latest_tag(remote[name])
           out == check_outcome(local_version, tag)
           report == [op |-> "check", name |-> name, at |-> clock + 1]
       IN  IF ~ok
           THEN last' = report @@ [out |-> "failed", local |-> None, remote |-> None]
           ELSE last' = report @@
                   [out |-> out, remote |-> tag,
                    local |-> IF out = "outdated" THEN local_version ELSE None]
    /\ UNCHANGED <<system, remote, toolsFile, configFile, aliasFile, backups, disk, run, batch>>

(***************************************************************************)
(* tools outdated                                                          *)
(***************************************************************************)
\* the Status column of one tool: the versions shown are
\* tool_data.get("version", "unknown") and release.get("tag_name", "unknown")
outdated_row(tool_data, release) ==
    LET local_version == Get(tool_data, "version", <<"unknown">>)
        remote_version == Get(release, "tag_name", <<"unknown">>)
    IN  [local |-> local_version, remote |-> remote_version,
         status |-> IF local_version = remote_version THEN "uptodate" ELSE "outdated"]

\* one request per registered tool; `failing` are the tools whose request
\* raised, shown as an error row
outdated(failing) ==
    /\ Quiet
    /\ Tick
    /\ LET tools == load_tools
           rows == [n \in DOMAIN tools |->
                      IF n \in failing
                      THEN [local |-> Get(tools[n], "version", <<"unknown">>),
                            remote |-> <<"error">>, status |-> "error"]
                      ELSE outdated_row(tools[n], remote[n])]
       IN  /\ failing \subseteq DOMAIN tools
           /\ last' = [op |-> "outdated", at |-> clock + 1,
                       out |-> IF DOMAIN tools = {} THEN "no_tools" ELSE "ok",
                       rows |-> rows,
                       outdated_count |->
                           Cardinality({n \in DOMAIN tools : rows[n].status = "outdated"})]
    /\ UNCHANGED <<system, remote, toolsFile, configFile, aliasFile, backups, disk, run, batch>>

(***************************************************************************)
(* tools update --all                                                      *)
(***************************************************************************)
update_all ==
    /\ Quiet
    /\ Tick
    /\ LET tools == load_tools IN
       IF DOMAIN tools = {}
       THEN /\ last' = [op |-> "update_all", out |-> "no_tools", at |-> clock + 1]
            /\ batch' = batch
       ELSE /\ batch' = [active |-> TRUE, tools |-> tools, todo |-> DOMAIN tools,
                         attempted |-> <<>>, failed |-> <<>>, reasons |-> EmptyMap,
                         outcomes |-> EmptyMap, resolved |-> EmptyMap, at |-> clock + 1]
            /\ last' = last
    /\ UNCHANGED <<system, remote, toolsFile, configFile, aliasFile, backups, disk, run>>

\* the loop takes the next key of the dict loaded when the command started
update_all_next(tool_name) ==
    /\ batch.active
    /\ run.phase = "Idle"
    /\ tool_name \in batch.todo
    /\ batch' = [batch EXCEPT !.todo = @ \ {tool_name}]
    /\ run' = StartRun("update", "Checking", tool_name, None, batch.at)
    /\ UNCHANGED <<system, remote, toolsFile, configFile, aliasFile, backups, disk, clock, last>>

\* the loop is over: the summary
update_all_end ==
    /\ batch.active
    /\ run.phase = "Idle"
    /\ batch.todo = {}
    /\ last' = [op |-> "update_all",
                out |-> IF batch.failed # <<>> THEN "failed" ELSE "ok",
                at |-> batch.at, tools |-> batch.tools,
                attempted |-> batch.attempted, failed |-> batch.failed,
                reasons |-> batch.reasons, outcomes |-> batch.outcomes,
                resolved |-> batch.resolved]
    /\ batch' = NoBatch
    /\ UNCHANGED <<system, remote, toolsFile, configFile, aliasFile, backups, disk, clock, run>>

(***************************************************************************)
(* tools remove NAME [--dry-run]                                           *)
(***************************************************************************)
\* remove_registry with a slip: --dry-run is not looked at
remove_registry_IgnoresDryRun(dry_run, tools, name) == save_store(Pop(tools, name))

\* the registry file after remove: tools.pop(name); save_tools(tools)
remove_registry(dry_run, tools, name) ==
    IF dry_run THEN toolsFile ELSE save_store(Pop(tools, name))

\* remove_files with a slip: the artifact is never unlinked
remove_files_KeepsFile(dry_run, file_path) == disk

\* the artifact files after remove: file_path.unlink() if file_path.exists()
remove_files(dry_run, file_path) ==
    IF dry_run THEN disk
    ELSE IF file_path \in DOMAIN disk THEN Pop(disk, file_path)
    ELSE disk

remove(name, dry_run) ==
    /\ Quiet
    /\ Tick
    /\ LET tools == load_tools IN
       IF name \notin DOMAIN tools
       THEN /\ last' = [op |-> "remove", name |-> name, dry_run |-> dry_run,
                        out |-> "not_installed", at |-> clock + 1]
            /\ UNCHANGED <<toolsFile, disk>>
       ELSE LET file_path == tools[name].file
                exists == file_path \in DOMAIN disk
                report == [op |-> "remove", name |-> name, dry_run |-> dry_run,
                           file |-> file_path, exists |-> exists, at |-> clock + 1]
            IN  /\ disk' = remove_files(dry_run, file_path)
                /\ toolsFile' = remove_registry(dry_run, tools, name)
                /\ last' = report @@ [out |-> IF dry_run THEN "would_remove" ELSE "removed"]
    /\ UNCHANGED <<system, remote, configFile, aliasFile, backups, run, batch>>

(***************************************************************************)
(* config set, debug activate, alias set, alias remove                     *)
(***************************************************************************)
ALLOWED_CONFIG_KEYS == {"download_dir"}

config_set(key, value) ==
    /\ Quiet
    /\ TickStore
    /\ IF key \notin ALLOWED_CONFIG_KEYS
       THEN /\ last' = [op |-> "config_set", out |-> "failed", at |-> clock + 1]
            /\ configFile' = configFile
       ELSE /\ configFile' = save_store(Put(load_config, key, value))
            /\ last' = [op |-> "config_set", out |-> "ok", at |-> clock + 1]
    /\ UNCHANGED <<system, remote, toolsFile, aliasFile, backups, disk, run, batch>>

debug_activate ==
    /\ Quiet
    /\ TickStore
    /\ configFile' = save_store(Put(load_config, "_debug", TRUE))
    /\ last' = [op |-> "debug_activate", out |-> "ok", at |-> clock + 1]
    /\ UNCHANGED <<system, remote, toolsFile, aliasFile, backups, disk, run, batch>>

\* debug deactivate: the key stays, with the value False
debug_deactivate ==
    /\ Quiet
    /\ TickStore
    /\ configFile' = save_store(Put(load_config, "_debug", FALSE))
    /\ last' = [op |-> "debug_deactivate", out |-> "ok", at |-> clock + 1]
    /\ UNCHANGED <<system, remote, toolsFile, aliasFile, backups, disk, run, batch>>

\* key.startswith("_"), over the keys of the model
startswith_underscore(key) == key \in {"_debug"}

\* the rows of the table of `config list`
config_list_rows(config) ==
    [key \in {k \in DOMAIN config : ~startswith_underscore(k)} |-> config[key]]

config_list ==
    /\ Quiet
    /\ TickStore
    /\ LET config == load_config IN
       last' = [op |-> "config_list", at |-> clock + 1,
                out |-> IF config = EmptyMap THEN "empty" ELSE "ok",
                rows |-> config_list_rows(config)]
    /\ UNCHANGED <<system, remote, toolsFile, configFile, aliasFile, backups, disk, run, batch>>

\* what `config delete --all` writes: config.clear(), then _debug is put back
\* when its value is true
config_cleared(config) ==
    LET debug_mode == Get(config, "_debug", FALSE)
    IN  IF debug_mode THEN Put(EmptyMap, "_debug", debug_mode) ELSE EmptyMap

\* config delete [KEY] [--all]; no key is the empty string
config_delete(key, all) ==
    /\ Quiet
    /\ TickStore
    /\ LET config == load_config
           report == [op |-> "config_delete", key |-> key, all |-> all, at |-> clock + 1]
       IN  IF all
           THEN IF config = EmptyMap
                THEN /\ last' = report @@ [out |-> "empty"]
                     /\ configFile' = configFile
                ELSE /\ last' = report @@ [out |-> "ok"]
                     /\ configFile' = save_store(config_cleared(config))
           ELSE IF key = "" \/ startswith_underscore(key)
           THEN /\ last' = report @@ [out |-> "failed"]
                /\ configFile' = configFile
           ELSE IF key \notin DOMAIN config
           THEN /\ last' = report @@ [out |-> "not_found"]
                /\ configFile' = configFile
           ELSE /\ last' = report @@ [out |-> "ok"]
                /\ configFile' = save_store(Pop(config, key))
    /\ UNCHANGED <<system, remote, toolsFile, aliasFile, backups, disk, run, batch>>

alias_set(shortcut, command, response) ==
    /\ Quiet
    /\ TickStore
    /\ LET aliases == load_aliases IN
       IF shortcut \in DOMAIN aliases /\ response # "y"
       THEN /\ last' = [op |-> "alias_set", out |-> "declined", at |-> clock + 1]
            /\ aliasFile' = aliasFile
       ELSE /\ aliasFile' = save_store(Put(aliases, shortcut, command))
            /\ last' = [op |-> "alias_set", out |-> "ok", at |-> clock + 1]
    /\ UNCHANGED <<system, remote, toolsFile, configFile, backups, disk, run, batch>>

alias_remove(shortcut) ==
    /\ Quiet
    /\ TickStore
    /\ LET aliases == load_aliases IN
       IF shortcut \notin DOMAIN aliases
       THEN /\ last' = [op |-> "alias_remove", out |-> "not_found", at |-> clock + 1]
            /\ aliasFile' = aliasFile
       ELSE /\ aliasFile' = save_store(Pop(aliases, shortcut))
            /\ last' = [op |-> "alias_remove", out |-> "ok", at |-> clock + 1]
    /\ UNCHANGED <<system, remote, toolsFile, configFile, backups, disk, run, batch>>

(***************************************************************************)
(* backup create / backup restore.  A snapshot name is the sequence of the *)
(* parts of its file stem between "_": backup_1 is <<"backup", "1">>.      *)
(***************************************************************************)
DigitStr == <<"1", "2", "3", "4", "5", "6", "7", "8", "9">>

\* str.isdigit()
isdigit(part) == \E i \in 1..Len(DigitStr) : DigitStr[i] = part

\* int(part), for a part that is a number
int(part) == CHOOSE i \in 1..Len(DigitStr) : DigitStr[i] = part

\* f"{n}"
str(n) == DigitStr[n]

SetMax(S) == CHOOSE x \in S : \A y \in S : y <= x

\* snapshot names given on the command line
SnapNames == {<<"stable">>, <<"backup", "old">>, <<"backup", "5", "x">>}

\* what the user types at a prompt: an answer, or nothing but Enter
Answers == {"y", "Y", "n", "x", ""}

\* typer.prompt(text, default=default).lower()
prompt(typed, default) ==
    LET value == IF typed = "" THEN default ELSE typed
    IN  IF value = "Y" THEN "y" ELSE value

\* BACKUP_DIR.glob("backup_*.json")
existing_backups == {b \in DOMAIN backups : Len(b) >= 2 /\ b[1] = "backup"}

\* auto_name with a slip: the snapshots are counted
auto_name_Count ==
    [ok |-> TRUE, name |-> <<"backup", str(Cardinality(existing_backups) + 1)>>]

\* the name of an unnamed snapshot: [ok, name]; max() of an empty list raises
auto_name ==
    IF existing_backups # {}
    THEN LET nums == {int(b[2]) : b \in {c \in existing_backups : isdigit(c[2])}}
         IN  IF nums = {} THEN [ok |-> FALSE, name |-> None]
             ELSE [ok |-> TRUE, name |-> <<"backup", str(SetMax(nums) + 1)>>]
    ELSE [ok |-> TRUE, name |-> <<"backup", "1">>]

\* backup_data with a slip: the aliases are stored under both keys
backup_data_Swapped(now) ==
    [created_at |-> now, tools |-> load_tools, config |-> load_aliases,
     aliases |-> load_aliases]

\* backup_data with a slip: a store that loads empty is left out
backup_data_SkipEmpty(now) ==
    LET all == [created_at |-> now, tools |-> load_tools, config |-> load_config,
                aliases |-> load_aliases]
    IN  [k \in {"created_at"} \cup {key \in {"tools", "config", "aliases"} : all[key] # EmptyMap}
            |-> all[k]]

\* the document backup_create writes
backup_data(now) ==
    [created_at |-> now, tools |-> load_tools, config |-> load_config,
     aliases |-> load_aliases]

\* overwrite_confirmed with a slip: anything but "n" is taken for a yes
overwrite_confirmed_NotNo(exists, response) == ~exists \/ response # "n"

\* overwrite_confirmed with a slip: the answer to the prompt is not looked at
overwrite_confirmed_Always(exists, response) == TRUE

\* if backup_file.exists(): ... if response != "y": return
overwrite_confirmed(exists, response) == ~exists \/ response = "y"

\* the report keeps the argument, whether the file existed, and the answer to
\* the prompt when it was asked
backup_create(arg, response) ==
    /\ Quiet
    /\ TickStore
    /\ LET named == IF arg = None THEN auto_name ELSE [ok |-> TRUE, name |-> arg]
           name == named.name
           exists == name \in DOMAIN backups
           report == [op |-> "backup_create", arg |-> arg, name |-> name, at |-> clock + 1,
                      existed |-> exists, response |-> IF exists THEN response ELSE ""]
       IN  IF ~named.ok
           THEN /\ last' = report @@ [out |-> "failed"]
                /\ backups' = backups
           ELSE IF ~overwrite_confirmed(exists, response)
           THEN /\ last' = report @@ [out |-> "declined"]
                /\ backups' = backups
           ELSE /\ name \in DOMAIN backups \/ Cardinality(DOMAIN backups) < MaxBackups
                /\ backups' = Put(backups, name,
                                  [mtime |-> clock + 1, doc |-> json_dump(backup_data(clock + 1))])
                /\ last' = report @@ [out |-> "ok"]
    /\ UNCHANGED <<system, remote, toolsFile, configFile, aliasFile, disk, run, batch>>

(***************************************************************************)
(* backup delete [NAME] [--all]                                            *)
(***************************************************************************)
\* delete_confirmed with a slip: anything but "n" is taken for a yes
delete_confirmed_NotNo(response) == response # "n"

\* `if response != "y": return`
delete_confirmed(response) == response = "y"

\* the report keeps the arguments, the number of snapshots found when --all
\* asks, and the answer to its prompt
backup_delete(name, all, response) ==
    /\ Quiet
    /\ TickStore
    /\ LET report == [op |-> "backup_delete", name |-> name, all |-> all, at |-> clock + 1]
       IN  IF DOMAIN backups = {}
           THEN /\ last' = report @@ [out |-> "no_backups", count |-> 0, response |-> ""]
                /\ backups' = backups
           ELSE IF all
           THEN LET asked == report @@ [count |-> Cardinality(DOMAIN backups),
                                        response |-> response]
                IN  IF ~delete_confirmed(response)
                    THEN /\ last' = asked @@ [out |-> "declined"]
                         /\ backups' = backups
                    ELSE /\ last' = asked @@ [out |-> "ok"]
                         /\ backups' = EmptyMap
           ELSE IF name = None \/ name \notin DOMAIN backups
           THEN /\ last' = report @@ [out |-> "failed", count |-> 0, response |-> ""]
                /\ backups' = backups
           ELSE /\ last' = report @@ [out |-> "ok", count |-> 1, response |-> ""]
                /\ backups' = Pop(backups, name)
    /\ UNCHANGED <<system, remote, toolsFile, configFile, aliasFile, disk, run, batch>>

(***************************************************************************)
(* backup list                                                             *)
(***************************************************************************)
\* the Created column of a snapshot: "unknown" when the file does not parse
\* or has no created_at
created_column(doc) ==
    IF json_load_ok(doc) THEN Get(doc.val, "created_at", "unknown") ELSE "unknown"

backup_list ==
    /\ Quiet
    /\ TickStore
    /\ last' = [op |-> "backup_list", at |-> clock + 1,
                out |-> IF DOMAIN backups = {} THEN "no_backups" ELSE "ok",
                rows |-> [b \in DOMAIN backups |-> created_column(backups[b].doc)]]
    /\ UNCHANGED <<system, remote, toolsFile, configFile, aliasFile, backups, disk, run, batch>>

(***************************************************************************)
(* uninstall-self: after the package is uninstalled, or when no package    *)
(* manager knows it, the command asks whether to delete the configuration  *)
(* and on "y" removes BASE_DIR: the three stores, the log and the backups  *)
(* directory.  When the uninstall of the package fails it returns before   *)
(* it asks.                                                                *)
(***************************************************************************)
uninstall_self(uninstalled, response) ==
    /\ Quiet
    /\ TickStore
    /\ LET report == [op |-> "uninstall_self", at |-> clock + 1] IN
       IF ~uninstalled
       THEN /\ last' = report @@ [out |-> "failed", response |-> ""]
            /\ UNCHANGED <<toolsFile, configFile, aliasFile, backups>>
       ELSE IF response # "y"
       THEN /\ last' = report @@ [out |-> "kept", response |-> response]
            /\ UNCHANGED <<toolsFile, configFile, aliasFile, backups>>
       ELSE /\ last' = report @@ [out |-> "deleted", response |-> response]
            /\ toolsFile' = Absent
            /\ configFile' = Absent
            /\ aliasFile' = Absent
            /\ backups' = EmptyMap
    /\ UNCHANGED <<system, remote, disk, run, batch>>

(***************************************************************************)
(* backup create, statement by statement, next to another invocation of    *)
(* the program.  The dict literal of lines 1747-1752 takes the timestamp,  *)
(* then calls load_tools(), load_config() and load_aliases() one after the *)
(* other; no lock is held, so a command of another process may write a     *)
(* store between two of the calls.  `history` keeps the loaded contents of *)
(* the three stores at every moment since the command began.               *)
(***************************************************************************)
\* what the three stores load to, now
contents == <<load_tools, load_config, load_aliases>>

backup_create_begin(arg, response) ==
    /\ Quiet
    /\ TickStore
    /\ LET named == IF arg = None THEN auto_name ELSE [ok |-> TRUE, name |-> arg]
           name == named.name
           report == [op |-> "backup_create", name |-> name, at |-> clock + 1]
       IN  IF ~named.ok
           THEN /\ last' = report @@ [out |-> "failed"]
                /\ run' = run
           ELSE IF name \in DOMAIN backups /\ response # "y"
           THEN /\ last' = report @@ [out |-> "declined"]
                /\ run' = run
           ELSE /\ name \in DOMAIN backups \/ Cardinality(DOMAIN backups) < MaxBackups
                /\ run' = [phase |-> "Snapshot", op |-> "backup_create", name |-> name,
                           at |-> clock + 1, data |-> [created_at |-> clock + 1],
                           history |-> <<contents>>]
                /\ last' = last
    /\ UNCHANGED <<system, remote, toolsFile, configFile, aliasFile, backups, disk, batch>>

\* snapshot_read with a slip: the store is embedded without being loaded
snapshot_read_Empty(data, n) == Put(data, StoreKeys[n], EmptyMap)

\* the n-th call of the dict literal: "tools": load_tools(), ...
snapshot_read(data, n) == Put(data, StoreKeys[n], load_store(stores[n]))

backup_create_read ==
    /\ run.phase = "Snapshot"
    /\ Cardinality(DOMAIN run.data) <= 3
    /\ run' = [run EXCEPT !.data = snapshot_read(@, Cardinality(DOMAIN run.data))]
    /\ UNCHANGED <<system, remote, toolsFile, configFile, aliasFile, backups, disk, clock,
                   batch, last>>

\* json.dump(backup_data, f, indent=2)
backup_create_write ==
    /\ run.phase = "Snapshot"
    /\ Cardinality(DOMAIN run.data) = 4
    /\ backups' = Put(backups, run.name, [mtime |-> run.at, doc |-> json_dump(run.data)])
    /\ last' = [op |-> "backup_create", name |-> run.name, at |-> run.at, out |-> "ok",
                history |-> run.history]
    /\ run' = Idle
    /\ UNCHANGED <<system, remote, toolsFile, configFile, aliasFile, disk, clock, batch>>

\* `config set` of another invocation, while backup create runs
other_config_set(key, value) ==
    /\ run.phase = "Snapshot"
    /\ TickStore
    /\ key \in ALLOWED_CONFIG_KEYS
    /\ configFile' = save_store(Put(load_config, key, value))
    /\ run' = [run EXCEPT !.history = Append(@, <<load_tools, Put(load_config, key, value),
                                                   load_aliases>>)]
    /\ UNCHANGED <<system, remote, toolsFile, aliasFile, backups, disk, batch, last>>

\* `alias set` of another invocation, while backup create runs
other_alias_set(shortcut, command) ==
    /\ run.phase = "Snapshot"
    /\ TickStore
    /\ aliasFile' = save_store(Put(load_aliases, shortcut, command))
    /\ run' = [run EXCEPT !.history = Append(@, <<load_tools, load_config,
                                                   Put(load_aliases, shortcut, command)>>)]
    /\ UNCHANGED <<system, remote, toolsFile, configFile, backups, disk, batch, last>>

\* newest with a slip: the snapshots are sorted by their embedded timestamp
newest_ByCreatedAt(b) ==
    /\ b \in DOMAIN backups
    /\ \A c \in DOMAIN backups :
          backups[c].doc.val.created_at <= backups[b].doc.val.created_at

\* sorted(glob("*.json"), key=st_mtime, reverse=True)[0]: a newest snapshot
newest(b) == b \in DOMAIN backups /\ \A c \in DOMAIN backups : backups[c].mtime <= backups[b].mtime

\* restore_store with a slip: the snapshot is merged into the current store
restore_store_Merge(data, key, file) ==
    IF key \in DOMAIN data
    THEN save_store([k \in (DOMAIN data[key]) \cup (DOMAIN load_store(file)) |->
                        IF k \in DOMAIN data[key] THEN data[key][k] ELSE load_store(file)[k]])
    ELSE file

\* restore_store with a slip: data.get(key, {}) -- a missing key erases the store
restore_store_Erase(data, key, file) ==
    IF key \in DOMAIN data THEN save_store(data[key]) ELSE save_store(EmptyMap)

\* the three conditional writes of backup_restore (lines 1806-1816)
restore_store(data, key, file) ==
    IF key \in DOMAIN data THEN save_store(data[key]) ELSE file

\* restore_confirmed with a slip: every answer but "n" is taken as a yes
restore_confirmed_NotNo(response) == response # "n"

\* if response != "y": return
restore_confirmed(response) == response = "y"

\* the report keeps the argument and, when the prompt was asked, the answer
backup_restore(arg, response) ==
    /\ Quiet
    /\ TickStore
    /\ IF DOMAIN backups = {}
       THEN /\ last' = [op |-> "backup_restore", arg |-> arg, name |-> arg,
                        out |-> "no_backups", at |-> clock + 1]
            /\ UNCHANGED stores
       ELSE \E name \in (DOMAIN backups) \cup {arg} :
            /\ IF arg = None THEN newest(name) ELSE name = arg
            /\ LET report == [op |-> "backup_restore", arg |-> arg, name |-> name,
                              at |-> clock + 1]
               IN
               IF name \notin DOMAIN backups
               THEN /\ last' = report @@ [out |-> "not_found"]
                    /\ UNCHANGED stores
               ELSE IF ~json_load_ok(backups[name].doc)
               THEN /\ last' = report @@ [out |-> "failed"]
                    /\ UNCHANGED stores
               ELSE IF ~restore_confirmed(response)
               THEN /\ last' = report @@ [out |-> "declined", response |-> response]
                    /\ UNCHANGED stores
               ELSE LET data == backups[name].doc.val IN
                    /\ toolsFile' = restore_store(data, "tools", toolsFile)
                    /\ configFile' = restore_store(data, "config", configFile)
                    /\ aliasFile' = restore_store(data, "aliases", aliasFile)
                    /\ last' = report @@ [out |-> "ok", before |-> stores,
                                          response |-> response]
    /\ UNCHANGED <<system, remote, backups, disk, run, batch>>

(***************************************************************************)
(* backup restore on a file system that may refuse a write.  save_tools,   *)
(* save_config and save_aliases log and re-raise; backup_restore catches   *)
(* the exception after the writes that were already done and exits.        *)
(***************************************************************************)
\* a store file after a save that raised: open() was refused and the file is
\* as it was, or the file was truncated and the dump did not complete
failed_write(file, fault) == IF fault = "torn" THEN Malformed ELSE file

\* restore_write with a slip: the stores are written back in the reverse order
restore_write_Reverse(data, i, file, k, fault) ==
    IF k = 0 \/ i > k THEN restore_store(data, StoreKeys[i], file)
    ELSE IF i = k THEN failed_write(file, fault)
    ELSE file

\* the i-th store file after a restore whose k-th write raised (k = 0: none):
\* the writes before the k-th are done, those after it are never reached
restore_write(data, i, file, k, fault) ==
    IF k = 0 \/ i < k THEN restore_store(data, StoreKeys[i], file)
    ELSE IF i = k THEN failed_write(file, fault)
    ELSE file

backup_restore_io(arg, response, k, fault) ==
    /\ Quiet
    /\ TickStore
    /\ IF DOMAIN backups = {}
       THEN /\ last' = [op |-> "backup_restore", name |-> arg, out |-> "no_backups",
                        at |-> clock + 1]
            /\ UNCHANGED stores
       ELSE \E name \in (DOMAIN backups) \cup {arg} :
            /\ IF arg = None THEN newest(name) ELSE name = arg
            /\ LET report == [op |-> "backup_restore", name |-> name, at |-> clock + 1] IN
               IF name \notin DOMAIN backups
               THEN /\ last' = report @@ [out |-> "not_found"]
                    /\ UNCHANGED stores
               ELSE IF ~json_load_ok(backups[name].doc)
               THEN /\ last' = report @@ [out |-> "failed"]
                    /\ UNCHANGED stores
               ELSE IF response # "y"
               THEN /\ last' = report @@ [out |-> "declined"]
                    /\ UNCHANGED stores
               ELSE LET data == backups[name].doc.val IN
                    /\ k # 0 => StoreKeys[k] \in DOMAIN data
                    /\ toolsFile' = restore_write(data, 1, toolsFile, k, fault)
                    /\ configFile' = restore_write(data, 2, configFile, k, fault)
                    /\ aliasFile' = restore_write(data, 3, aliasFile, k, fault)
                    /\ last' = report @@ [out |-> IF k = 0 THEN "ok" ELSE "failed",
                                          before |-> stores, failed_at |-> k]
    /\ UNCHANGED <<system, remote, backups, disk, run, batch>>

(***************************************************************************)
(* Outside events: what the organisation publishes, and what the user does *)
(* to the files by hand.                                                   *)
(***************************************************************************)
Event == [op |-> "event", at |-> clock + 1]

\* a repository gets another latest release, also while a command runs.  The
\* program sees the remote only in its two metadata requests, so it is enough
\* to publish between commands, between the tools of `update --all`, and between
\* the request of update_single and the request of download_update
remote_publish(name, release) ==
    /\ run.phase \in {"Idle", "Resolving"}
    /\ Tick
    /\ remote[name] # release
    /\ remote' = [remote EXCEPT ![name] = release]
    /\ UNCHANGED <<system, toolsFile, configFile, aliasFile, backups, disk, run, batch, last>>

\* a store file is edited by hand: left malformed, or valid in another layout
EditedFile(file, how) ==
    IF how = "malformed" THEN Malformed
    ELSE IF file.kind = "json" THEN HandWritten(file.val)
    ELSE file

store_edited(which, how) ==
    /\ Quiet
    /\ TickStore
    /\ toolsFile' = IF which = "tools" THEN EditedFile(toolsFile, how) ELSE toolsFile
    /\ configFile' = IF which = "config" THEN EditedFile(configFile, how) ELSE configFile
    /\ aliasFile' = IF which = "aliases" THEN EditedFile(aliasFile, how) ELSE aliasFile
    /\ stores' # stores
    /\ last' = Event
    /\ UNCHANGED <<system, remote, backups, disk, run, batch>>

\* an artifact file is deleted outside the program
artifact_deleted(path) ==
    /\ Quiet
    /\ Tick
    /\ path \in DOMAIN disk
    /\ disk' = Pop(disk, path)
    /\ last' = Event
    /\ UNCHANGED <<system, remote, toolsFile, configFile, aliasFile, backups, run, batch>>

\* a snapshot file is edited by hand: one of its keys is dropped
snapshot_edited(name, key) ==
    /\ Quiet
    /\ TickStore
    /\ name \in DOMAIN backups
    /\ backups[name].doc.kind = "json"
    /\ key \in DOMAIN backups[name].doc.val
    /\ backups' = [backups EXCEPT ![name] =
                      [mtime |-> clock + 1, doc |-> HandWritten(Pop(backups[name].doc.val, key))]]
    /\ last' = Event
    /\ UNCHANGED <<system, remote, toolsFile, configFile, aliasFile, disk, run, batch>>

(***************************************************************************)
(* The installer/updater: one command at a time, each run to its end, with *)
(* the network failing or not at every request.                            *)
(***************************************************************************)
Next ==
    \/ \E name \in Names, branch \in Branches \cup {None} : install(name, branch)
    \/ \E name \in Tools : update(name)
    \/ \E ok \in BOOLEAN : update_single(ok)
    \/ \E ok \in BOOLEAN : download_update_resolve(ok)
    \/ \E net \in {"ok", "refused", "broken"} : download_update_fetch(net)
    \/ download_update_persist
    \/ update_all
    \/ \E tool_name \in Tools : update_all_next(tool_name)
    \/ update_all_end
    \/ \E name \in Tools, dry_run \in BOOLEAN : remove(name, dry_run)
    \/ \E key \in {"download_dir", "colour"}, value \in Dirs : config_set(key, value)
    \/ \E name \in Tools, release \in Releases : remote_publish(name, release)
    \/ \E how \in {"malformed", "layout"} : store_edited("tools", how)
    \/ \E path \in DOMAIN disk : artifact_deleted(path)

Spec == Init /\ [][Next]_vars

(***************************************************************************)
(* The backup manager, with the commands that change the three stores: one *)
(* tool, installed from its release over a network that answers.           *)
(***************************************************************************)
NextBackup ==
    \/ install(<<"alpha">>, None)
    \/ download_update_resolve(TRUE)
    \/ download_update_fetch("ok")
    \/ download_update_persist
    \/ remove(<<"alpha">>, FALSE)
    \/ \E value \in Dirs : config_set("download_dir", value)
    \/ debug_activate
    \/ \E shortcut \in {"i"}, command \in {"tools install", "tools list"},
          response \in {"y", "n"} : alias_set(shortcut, command, response)
    \/ \E shortcut \in {"i"} : alias_remove(shortcut)
    \/ \E arg \in SnapNames \cup {None}, typed \in Answers :
          backup_create(arg, prompt(typed, "n"))
    \/ \E arg \in SnapNames \cup {None}, typed \in Answers :
          backup_restore(arg, prompt(typed, "y"))
    \/ \E which \in {"tools", "config", "aliases"}, how \in {"malformed", "layout"} :
          store_edited(which, how)
    \/ \E name \in DOMAIN backups, key \in {"tools", "config", "aliases"} :
          snapshot_edited(name, key)

SpecBackup == Init /\ [][NextBackup]_vars

(***************************************************************************)
(* The backup manager on a file system that may refuse a write of restore. *)
(***************************************************************************)
NextFaulty ==
    \/ install(<<"alpha">>, None)
    \/ download_update_resolve(TRUE)
    \/ download_update_fetch("ok")
    \/ download_update_persist
    \/ \E value \in Dirs : config_set("download_dir", value)
    \/ \E shortcut \in {"i"}, command \in {"tools install", "tools list"} :
          alias_set(shortcut, command, "y")
    \/ \E arg \in SnapNames \cup {None} : backup_create(arg, "y")
    \/ \E arg \in SnapNames \cup {None}, response \in {"y", "n"}, k \in 0..3,
          fault \in {"refused", "torn"} : backup_restore_io(arg, response, k, fault)
    \/ \E name \in DOMAIN backups, key \in {"tools", "config", "aliases"} :
          snapshot_edited(name, key)

SpecFaulty == Init /\ [][NextFaulty]_vars

(***************************************************************************)
(* backup create next to the commands of another invocation.               *)
(***************************************************************************)
NextConcurrent ==
    \/ \E value \in Dirs : config_set("download_dir", value)
    \/ \E shortcut \in {"i"}, command \in {"tools install", "tools list"} :
          alias_set(shortcut, command, "y")
    \/ \E shortcut \in {"i"} : alias_remove(shortcut)
    \/ \E arg \in SnapNames \cup {None}, response \in {"y", "n"} :
          backup_create_begin(arg, response)
    \/ backup_create_read
    \/ backup_create_write
    \/ \E value \in Dirs : other_config_set("download_dir", value)
    \/ \E shortcut \in {"i"}, command \in {"tools install", "tools list"} :
          other_alias_set(shortcut, command)

SpecConcurrent == Init /\ [][NextConcurrent]_vars

(***************************************************************************)
(* The resolver over every release document of at most MaxAssets assets:   *)
(* the latest release of alpha is any of them, installs run against it,    *)
(* on a machine where beta is or is not installed already.                 *)
(***************************************************************************)
\* the registry after `install beta` from RelV1 on a Linux host
BetaInstalled ==
    json_dump([n \in {<<"beta">>} |->
        ToolRecord(<<"v1">>, PathOf(Cwd, <<"beta", "-", "v1", "-">> \o AssetLinux.name),
                   "linux", 0, None)])

InitResolve ==
    /\ system \in {"linux", "windows", "darwin"}
    /\ \E n \in 0..MaxAssets : \E names \in [1..n -> AssetNames] :
       \E tagged \in BOOLEAN, zipped \in BOOLEAN :
          remote = [name \in Names |-> IF name = <<"alpha">>
                                       THEN MkRelease(names, tagged, zipped)
                                       ELSE RelV1]
    /\ toolsFile \in {Absent, BetaInstalled}
    /\ configFile = Absent
    /\ aliasFile = Absent
    /\ backups = EmptyMap
    /\ disk = EmptyMap
    /\ clock = 0
    /\ run = Idle
    /\ batch = NoBatch
    /\ last = [op |-> "none", at |-> 0]

NextResolve ==
    \/ install(<<"alpha">>, None)
    \/ \E ok \in BOOLEAN : download_update_resolve(ok)
    \/ \E net \in {"ok", "refused"} : download_update_fetch(net)
    \/ download_update_persist

SpecResolve == InitResolve /\ [][NextResolve]_vars

(***************************************************************************)
(* The installer/updater given any name: a tool, an excluded repository or *)
(* the empty name.                                                         *)
(***************************************************************************)
NextTarget ==
    \/ \E name \in Names \cup {None}, branch \in Branches \cup {None} : install(name, branch)
    \/ \E name \in Names \cup {None} : update(name)
    \/ \E ok \in BOOLEAN : update_single(ok)
    \/ \E ok \in BOOLEAN : download_update_resolve(ok)
    \/ \E net \in {"ok", "refused", "broken"} : download_update_fetch(net)
    \/ download_update_persist
    \/ update_all
    \/ \E tool_name \in Names : update_all_next(tool_name)
    \/ update_all_end

SpecTarget == Init /\ [][NextTarget]_vars

(***************************************************************************)
(* Two invocations of the program at their update of the registry, with no *)
(* lock between them: each is an install that has downloaded its artifact  *)
(* (line 2118) or a remove (line 1542).  Each loads tools.json, changes    *)
(* its copy, and rewrites the file; the steps of the two interleave.       *)
(***************************************************************************)
Invocations == [op : {"install", "remove"}, name : Tools]

\* the invocation as it reaches its update of the registry
Reached(inv) ==
    LET t == ResolveRelease(system, inv.name, remote[inv.name])
    IN  [op |-> inv.op, name |-> inv.name, pc |-> "load", tools |-> EmptyMap, out |-> "",
         tag |-> t.tag_name, dest |-> PathOf(get_download_dir, t.file_name)]

race_begin(a, b) ==
    /\ Quiet
    /\ Tick
    /\ \A inv \in {a, b} :
          inv.op = "install" => ResolveRelease(system, inv.name, remote[inv.name]).ok
    /\ run' = [phase |-> "Race", op |-> "race", at |-> clock + 1, before |-> load_tools,
               inv |-> <<Reached(a), Reached(b)>>, order |-> <<>>]
    /\ disk' = [p \in DOMAIN disk \cup {Reached(inv).dest : inv \in {c \in {a, b} : c.op = "install"}}
                  |-> IF \E inv \in {a, b} : inv.op = "install" /\ Reached(inv).dest = p
                      THEN "full" ELSE disk[p]]
    /\ UNCHANGED <<system, remote, toolsFile, configFile, aliasFile, backups, batch, last>>

\* tools = load_tools(), and for remove the test `name not in tools`
race_load(i) ==
    /\ run.phase = "Race"
    /\ run.inv[i].pc = "load"
    /\ LET tools == load_tools
           me == run.inv[i]
       IN  run' = [run EXCEPT !.inv[i] =
                      IF me.op = "remove" /\ me.name \notin DOMAIN tools
                      THEN [me EXCEPT !.pc = "done", !.out = "not_installed"]
                      ELSE [me EXCEPT !.pc = "save", !.tools = tools]]
    /\ UNCHANGED <<system, remote, toolsFile, configFile, aliasFile, backups, disk, clock,
                   batch, last>>

\* the dict an invocation hands to save_tools: its copy with its own change
race_written(me) ==
    IF me.op = "install"
    THEN Put(me.tools, me.name, ToolRecord(me.tag, me.dest, system, clock, None))
    ELSE Pop(me.tools, me.name)

\* race_save with a slip: the file is read again just before it is written
race_save_Fresh(i) ==
    /\ run.phase = "Race"
    /\ run.inv[i].pc = "save"
    /\ LET me == run.inv[i]
           out == IF me.op = "install" THEN "ok" ELSE "removed"
       IN  /\ toolsFile' = save_store(race_written([me EXCEPT !.tools = load_tools]))
           /\ disk' = IF me.op = "remove"
                      THEN remove_files(FALSE, me.tools[me.name].file)
                      ELSE disk
           /\ run' = [run EXCEPT !.inv[i] = [me EXCEPT !.pc = "done", !.out = out],
                                 !.order = Append(@, i)]
    /\ UNCHANGED <<system, remote, configFile, aliasFile, backups, clock, batch, last>>

\* tools[name] = {...}; save_tools(tools), and for remove the unlink,
\* tools.pop(name); save_tools(tools)
race_save(i) ==
    /\ run.phase = "Race"
    /\ run.inv[i].pc = "save"
    /\ LET me == run.inv[i]
           out == IF me.op = "install" THEN "ok" ELSE "removed"
       IN  /\ toolsFile' = save_store(race_written(me))
           /\ disk' = IF me.op = "remove"
                      THEN remove_files(FALSE, me.tools[me.name].file)
                      ELSE disk
           /\ run' = [run EXCEPT !.inv[i] = [me EXCEPT !.pc = "done", !.out = out],
                                 !.order = Append(@, i)]
    /\ UNCHANGED <<system, remote, configFile, aliasFile, backups, clock, batch, last>>

\* both invocations have ended
race_end ==
    /\ run.phase = "Race"
    /\ \A i \in 1..2 : run.inv[i].pc = "done"
    /\ last' = [op |-> "race", at |-> run.at, before |-> run.before, inv |-> run.inv,
                order |-> run.order]
    /\ run' = Idle
    /\ UNCHANGED <<system, remote, toolsFile, configFile, aliasFile, backups, disk, clock,
                   batch>>

NextRace ==
    \/ \E name \in Tools : install(name, None)
    \/ download_update_resolve(TRUE)
    \/ download_update_fetch("ok")
    \/ download_update_persist
    \/ \E a \in Invocations, b \in Invocations : race_begin(a, b)
    \/ \E i \in 1..2 : race_load(i)
    \/ \E i \in 1..2 : race_save(i)
    \/ race_end

SpecRace == Init /\ [][NextRace]_vars

(***************************************************************************)
(* tools check next to installs, from a release or from a branch, and to   *)
(* new releases of the tools.                                              *)
(***************************************************************************)
NextCheck ==
    \/ \E name \in Tools, branch \in Branches \cup {None} : install(name, branch)
    \/ download_update_resolve(TRUE)
    \/ download_update_fetch("ok")
    \/ download_update_persist
    \/ \E name \in Tools, release \in Releases : remote_publish(name, release)
    \/ \E name \in Tools, ok \in BOOLEAN : check(name, ok)

SpecCheck == Init /\ [][NextCheck]_vars

(***************************************************************************)
(* backup delete next to backup create and to commands that fill the       *)
(* stores.                                                                 *)
(***************************************************************************)
NextDelete ==
    \/ \E value \in Dirs : config_set("download_dir", value)
    \/ \E shortcut \in {"i"}, command \in {"tools install"} : alias_set(shortcut, command, "y")
    \/ \E arg \in SnapNames \cup {None}, typed \in Answers :
          backup_create(arg, prompt(typed, "n"))
    \/ \E name \in SnapNames \cup {None}, all \in BOOLEAN, typed \in Answers :
          backup_delete(name, all, prompt(typed, "n"))

SpecDelete == Init /\ [][NextDelete]_vars

(***************************************************************************)
(* install on a network and a file system that may fail at every step:     *)
(* save_tools logs and re-raises when tools.json cannot be written, and    *)
(* download_update and install pass the exception on.                      *)
(***************************************************************************)
download_update_persist_io(fault) ==
    /\ run.phase = "Persisting"
    /\ IF fault = "none"
       THEN /\ LET tools == load_tools
                   rec == ToolRecord(run.tag, run.dest, system, clock, run.branch)
               IN  toolsFile' = save_store(Put(tools, run.name, rec))
            /\ Finish(run, "ok", "")
       ELSE /\ toolsFile' = failed_write(toolsFile, fault)
            /\ Finish(run, "failed", "FileSystemError")
    /\ UNCHANGED <<system, remote, configFile, aliasFile, backups, disk, clock>>

NextPhases ==
    \/ \E name \in Names, branch \in Branches \cup {None} : install(name, branch)
    \/ \E ok \in BOOLEAN : download_update_resolve(ok)
    \/ \E net \in {"ok", "refused", "broken"} : download_update_fetch(net)
    \/ \E fault \in {"none", "refused", "torn"} : download_update_persist_io(fault)
    \/ \E name \in Tools, release \in Releases : remote_publish(name, release)

SpecPhases == Init /\ [][NextPhases]_vars

(***************************************************************************)
(* Installs one after the other against a remote that does not change, on  *)
(* a machine where beta is or is not installed already.                    *)
(***************************************************************************)
InitReinstall ==
    /\ system \in {"linux", "windows"}
    /\ remote \in [Names -> {RelV1, RelV2}]
    /\ toolsFile \in {Absent, BetaInstalled}
    /\ configFile = Absent
    /\ aliasFile = Absent
    /\ backups = EmptyMap
    /\ disk = EmptyMap
    /\ clock = 0
    /\ run = Idle
    /\ batch = NoBatch
    /\ last = [op |-> "none", at |-> 0]

NextReinstall ==
    \/ \E name \in Tools, branch \in Branches \cup {None} : install(name, branch)
    \/ \E ok \in BOOLEAN : download_update_resolve(ok)
    \/ \E net \in {"ok", "refused", "broken"} : download_update_fetch(net)
    \/ download_update_persist
    \/ \E value \in Dirs : config_set("download_dir", value)
    \/ \E name \in Tools : remove(name, FALSE)

SpecReinstall == InitReinstall /\ [][NextReinstall]_vars

(***************************************************************************)
(* The config commands and the debug switch.                               *)
(***************************************************************************)
NextConfig ==
    \/ \E key \in {"download_dir", "colour"}, value \in Dirs : config_set(key, value)
    \/ debug_activate
    \/ debug_deactivate
    \/ config_list
    \/ \E key \in {"download_dir", "_debug", ""}, all \in BOOLEAN : config_delete(key, all)
    \/ \E how \in {"malformed", "layout"} : store_edited("config", how)

SpecConfig == Init /\ [][NextConfig]_vars

(***************************************************************************)
(* Every command of the program next to the snapshots: one tool, a network *)
(* that answers, one command at a time.                                    *)
(***************************************************************************)
NextSnapshots ==
    \/ \E branch \in Branches \cup {None} : install(<<"alpha">>, branch)
    \/ update(<<"alpha">>)
    \/ update_single(TRUE)
    \/ download_update_resolve(TRUE)
    \/ download_update_fetch("ok")
    \/ download_update_persist
    \/ update_all
    \/ \E tool_name \in Tools : update_all_next(tool_name)
    \/ update_all_end
    \/ \E dry_run \in BOOLEAN : remove(<<"alpha">>, dry_run)
    \/ check(<<"alpha">>, TRUE)
    \/ \E value \in Dirs : config_set("download_dir", value)
    \/ config_list
    \/ \E all \in BOOLEAN : config_delete("download_dir", all)
    \/ debug_activate
    \/ debug_deactivate
    \/ alias_set("i", "tools install", "y")
    \/ alias_remove("i")
    \/ \E arg \in SnapNames \cup {None}, typed \in {"y", "x", ""} :
          backup_create(arg, prompt(typed, "n"))
    \/ \E arg \in SnapNames \cup {None}, typed \in {"n", ""} :
          backup_restore(arg, prompt(typed, "y"))
    \/ backup_list
    \/ \E name \in SnapNames, all \in BOOLEAN, typed \in {"y", ""} :
          backup_delete(name, all, prompt(typed, "n"))
    \/ \E uninstalled \in BOOLEAN, typed \in {"y", ""} :
          uninstall_self(uninstalled, prompt(typed, "n"))

SpecSnapshots == Init /\ [][NextSnapshots]_vars

(***************************************************************************)
(* Installs and removes of tools and branches whose names hold hyphens:    *)
(* the tools xe and xe-cli, the branches dev and cli-dev, one download     *)
(* directory.                                                              *)
(***************************************************************************)
HyphenTools == {<<"xe">>, <<"xe", "-", "cli">>}

HyphenBranches == {<<"dev">>, <<"cli", "-", "dev">>}

InitHyphen ==
    /\ system \in {"linux", "windows"}
    /\ remote = [name \in HyphenTools |-> RelV1]
    /\ toolsFile = Absent
    /\ configFile = Absent
    /\ aliasFile = Absent
    /\ backups = EmptyMap
    /\ disk = EmptyMap
    /\ clock = 0
    /\ run = Idle
    /\ batch = NoBatch
    /\ last = [op |-> "none", at |-> 0]

NextHyphen ==
    \/ \E name \in HyphenTools, branch \in HyphenBranches \cup {None} : install(name, branch)
    \/ \E name \in HyphenTools : update(name)
    \/ update_single(TRUE)
    \/ download_update_resolve(TRUE)
    \/ download_update_fetch("ok")
    \/ download_update_persist
    \/ \E name \in HyphenTools : remove(name, FALSE)

SpecHyphen == InitHyphen /\ [][NextHyphen]_vars

(***************************************************************************)
(* tools outdated, tools check and tools update over the same registry and *)
(* the same remote, whose release documents have a tag or have none.       *)
(***************************************************************************)
\* a release document with a source archive and no tag_name
RelUntagged == [assets |-> <<>>, zipball_url |-> "z0"]

InitOutdated ==
    /\ system \in {"linux", "windows"}
    /\ remote \in [Names -> {RelV1, RelUntagged}]
    /\ toolsFile = Absent
    /\ configFile = Absent
    /\ aliasFile = Absent
    /\ backups = EmptyMap
    /\ disk = EmptyMap
    /\ clock = 0
    /\ run = Idle
    /\ batch = NoBatch
    /\ last = [op |-> "none", at |-> 0]

NextOutdated ==
    \/ \E name \in Tools, branch \in Branches \cup {None} : install(name, branch)
    \/ \E name \in Tools : update(name)
    \/ update_single(TRUE)
    \/ download_update_resolve(TRUE)
    \/ download_update_fetch("ok")
    \/ download_update_persist
    \/ \E name \in Tools : check(name, TRUE)
    \/ \E failing \in SUBSET Tools : outdated(failing)
    \/ \E name \in Tools : remote_publish(name, RelV2)

SpecOutdated == InitOutdated /\ [][NextOutdated]_vars

(***************************************************************************)
(* Helpers of the properties.                                              *)
(***************************************************************************)
\* the set of the elements of a sequence
Range(seq) == {seq[i] : i \in 1..Len(seq)}

\* the last command that finished is `op`, and nothing runs
Completed(op) == Quiet /\ last.op = op

\* the files of the program other than its log
files == <<toolsFile, configFile, aliasFile, backups, disk>>

(***************************************************************************)
(* C1: after a successful install(name) the registry, loaded again, holds  *)
(* a record of name whose version is the tag resolved during that install  *)
(* and whose file path is a file that exists on disk.                      *)
(***************************************************************************)
C1_InstallRecordsResolvedTag ==
    (Completed("install") /\ last.out = "ok") =>
        /\ last.name \in DOMAIN load_tools
        /\ load_tools[last.name].version = last.tag
        /\ load_tools[last.name].file \in DOMAIN disk

C1_Witness ==
    /\ Completed("install")
    /\ last.out = "ok"
    /\ last.branch = None
    /\ last.tag = <<"v1">>
    /\ last.name \notin EXCLUDED_REPOS

(***************************************************************************)
(* C2: update(name), when the stored version equals the tag it resolves,   *)
(* ends as up-to-date after exactly one metadata request and no download,  *)
(* and none of its steps changes the registry or any other file.           *)
(***************************************************************************)
C2_UpToDateReport ==
    (Completed("update") /\ last.seen # None /\ last.local = last.seen) =>
        /\ last.out = "uptodate"
        /\ last.nMeta = 1
        /\ last.nDl = 0

\* the steps of such an update are those taken into or out of the phase Checking
C2_CheckingStep ==
    (run.phase = "Checking" \/ run'.phase = "Checking") => UNCHANGED files

C2_UpToDateShortCircuits == []C2_UpToDateReport /\ [][C2_CheckingStep]_vars

C2_Witness ==
    /\ Completed("update")
    /\ last.out = "uptodate"
    /\ last.local = <<"v1">>

(***************************************************************************)
(* C3: when update(name) does not short-circuit and the record of name     *)
(* carries a branch, the record written by the update carries the same     *)
(* branch and the version branch-<branch>.                                 *)
(***************************************************************************)
C3_PersistKeepsBranch ==
    LET old == Get(load_tools, run.name, EmptyMap)
        new == Get(load_store(toolsFile'), run.name, EmptyMap)
    IN  (run.phase = "Persisting" /\ run.op = "update" /\ "branch" \in DOMAIN old) =>
            /\ "branch" \in DOMAIN new
            /\ new.branch = old.branch
            /\ new.version = BranchTag(old.branch)

C3_UpdateKeepsBranch == [][C3_PersistKeepsBranch]_vars

(***************************************************************************)
(* C4: update --all over N registered tools of which K fail reports        *)
(* exactly those K names as failed, each with its reason; afterwards the   *)
(* record of every other tool holds the version resolved for it, and the   *)
(* record of every failed tool is what it was when the command started.    *)
(***************************************************************************)
C4_UpdateAllReport ==
    (Completed("update_all") /\ last.out # "no_tools") =>
        /\ Range(last.failed) = {n \in DOMAIN last.tools : last.outcomes[n] = "failed"}
        /\ Len(last.failed) = Cardinality(Range(last.failed))
        /\ DOMAIN last.reasons = Range(last.failed)
        /\ (last.out = "failed") = (last.failed # <<>>)
        /\ \A n \in DOMAIN last.tools :
              IF n \in Range(last.failed)
              THEN n \in DOMAIN load_tools /\ load_tools[n] = last.tools[n]
              ELSE /\ n \in DOMAIN load_tools
                   /\ load_tools[n].version = last.resolved[n]

C4_Witness ==
    /\ Completed("update_all")
    /\ last.out = "failed"
    /\ Cardinality(DOMAIN last.tools) = 2
    /\ Len(last.failed) = 1
    /\ \E n \in DOMAIN last.tools :
          /\ last.outcomes[n] = "ok"
          /\ load_tools[n].version # last.tools[n].version

(***************************************************************************)
(* C5: update --all attempts the update of every tool that was in the      *)
(* registry when it started, exactly once each and one at a time, whatever *)
(* the earlier tools did, and then ends.                                   *)
(***************************************************************************)
\* the tools of the running loop: done, in hand, and still to do
C5_LoopAccounts ==
    batch.active =>
        LET inHand == IF run.phase = "Idle" THEN {} ELSE {run.name} IN
        /\ Len(batch.attempted) = Cardinality(Range(batch.attempted))
        /\ Range(batch.attempted) \cup inHand \cup batch.todo = DOMAIN batch.tools
        /\ Range(batch.attempted) \cap inHand = {}
        /\ Range(batch.attempted) \cap batch.todo = {}
        /\ inHand \cap batch.todo = {}
        /\ Range(batch.failed) \subseteq Range(batch.attempted)

C5_AllAttemptedOnce ==
    (Completed("update_all") /\ last.out # "no_tools") =>
        /\ Range(last.attempted) = DOMAIN last.tools
        /\ Len(last.attempted) = Cardinality(DOMAIN last.tools)

C5_UpdateAllAttemptsAll ==
    /\ [](C5_LoopAccounts /\ C5_AllAttemptedOnce)
    /\ (batch.active ~> ~batch.active)

C5_Witness ==
    /\ Completed("update_all")
    /\ last.out = "failed"
    /\ Len(last.attempted) = 2
    /\ last.attempted[1] \in Range(last.failed)
    /\ last.outcomes[last.attempted[2]] # "failed"

\* a command that has started runs on: no step of the program is held back
FairSpec == Spec /\ WF_vars(Next)

(***************************************************************************)
(* C6: remove(name, dryRun=true) changes neither the registry nor any      *)
(* other file, whether or not the tool is installed and whether or not its *)
(* artifact exists.                                                        *)
(***************************************************************************)
C6_DryRunStep ==
    (last' # last /\ last'.op = "remove" /\ last'.dry_run) => UNCHANGED files

C6_DryRunChangesNothing == [][C6_DryRunStep]_vars

C6_Witness ==
    /\ Completed("remove")
    /\ last.dry_run
    /\ last.out = "would_remove"
    /\ ~last.exists

(***************************************************************************)
(* C7: remove(name, dryRun=false) of an installed tool ends with name      *)
(* absent from the registry: the artifact is deleted when it exists, and   *)
(* when it is already missing the deletion is skipped and the entry is     *)
(* removed all the same.                                                   *)
(***************************************************************************)
C7_RemoveStep ==
    (last' # last /\ last'.op = "remove" /\ ~last'.dry_run
        /\ last'.name \in DOMAIN load_tools) =>
        LET file_path == load_tools[last'.name].file IN
        /\ last'.out = "removed"
        /\ last'.name \notin DOMAIN load_store(toolsFile')
        /\ \A n \in (DOMAIN load_tools) \ {last'.name} :
              n \in DOMAIN load_store(toolsFile') /\ load_store(toolsFile')[n] = load_tools[n]
        /\ last'.exists = (file_path \in DOMAIN disk)
        /\ disk' = IF file_path \in DOMAIN disk THEN Pop(disk, file_path) ELSE disk

C7_RemoveDropsEntry == [][C7_RemoveStep]_vars

C7_Witness ==
    /\ Completed("remove")
    /\ ~last.dry_run
    /\ last.out = "removed"
    /\ ~last.exists
    /\ last.name \notin DOMAIN load_tools

(***************************************************************************)
(* Helpers of the backup properties.                                       *)
(***************************************************************************)
\* a restore was confirmed and applied; `last.before` are the three store
\* files as they were when it started
Restored == Completed("backup_restore") /\ last.out = "ok"

\* the document of the snapshot the last command restored or wrote
RestoredData == backups[last.name].doc.val

\* the restored snapshot was written by backup create in the tick before
JustCreated ==
    /\ backups[last.name].doc.fmt = "dump"
    /\ backups[last.name].mtime = last.at - 1

\* backup create writes its snapshot and nothing else
CreateStep ==
    (last' # last /\ last'.op = "backup_create") => UNCHANGED <<toolsFile, configFile, aliasFile, disk>>

(***************************************************************************)
(* C8, as claimed: backup create immediately followed by a confirmed       *)
(* restore of that snapshot leaves the three store files byte-identical,   *)
(* also when a store file is absent or malformed.                          *)
(***************************************************************************)
C8_RoundTripByteIdentical ==
    (Restored /\ JustCreated) => stores = last.before

(***************************************************************************)
(* C8, amended: after backup create and a confirmed restore of that        *)
(* snapshot every store loads to what it loaded to before, and every store *)
(* file holds the json.dump of that content: a file the program wrote is   *)
(* byte-identical, an absent or malformed file has become the dump of the  *)
(* empty mapping, a file in another layout has been rewritten.             *)
(***************************************************************************)
C8_RoundTripState ==
    (Restored /\ JustCreated) =>
        \A i \in 1..3 :
            /\ load_store(stores[i]) = load_store(last.before[i])
            /\ stores[i] = json_dump(load_store(last.before[i]))
            /\ (last.before[i].kind = "json" /\ last.before[i].fmt = "dump")
                   => stores[i] = last.before[i]
            /\ last.before[i].kind \in {"absent", "malformed"}
                   => stores[i] = json_dump(EmptyMap)

C8_RoundTripKeepsContent == []C8_RoundTripState /\ [][CreateStep]_vars

C8_Witness ==
    /\ Restored
    /\ JustCreated
    /\ last.before[1].kind = "json"
    /\ last.before[1].fmt = "dump"
    /\ DOMAIN load_tools # {}
    /\ last.before[2].kind = "malformed"
    /\ last.before[3].kind = "absent"

(***************************************************************************)
(* C9: after a confirmed restore of a snapshot holding the three store     *)
(* keys, the registry, the configuration and the aliases are exactly the   *)
(* copies of the snapshot: nothing of the current state is merged in.      *)
(***************************************************************************)
C9_RestoreOverwritesWholesale ==
    (Restored /\ {"tools", "config", "aliases"} \subseteq DOMAIN RestoredData) =>
        /\ load_tools = RestoredData.tools
        /\ load_config = RestoredData.config
        /\ load_aliases = RestoredData.aliases

\* an alias set after the snapshot is gone, a tool removed since is back
C9_Witness ==
    /\ Restored
    /\ {"tools", "config", "aliases"} \subseteq DOMAIN RestoredData
    /\ \/ (DOMAIN load_store(last.before[3])) \ (DOMAIN load_aliases) # {}
       \/ (DOMAIN load_tools) \ (DOMAIN load_store(last.before[1])) # {}

(***************************************************************************)
(* C10: a snapshot document that lacks one of the three store keys is      *)
(* restored without error: the store of a missing key is left exactly as   *)
(* it was, the store of every key present is overwritten.                  *)
(***************************************************************************)
C10_MissingKeyLeavesStore ==
    /\ Restored =>
          \A i \in 1..3 :
              stores[i] = IF StoreKeys[i] \in DOMAIN RestoredData
                          THEN json_dump(RestoredData[StoreKeys[i]])
                          ELSE last.before[i]
    /\ (Completed("backup_restore") /\ last.out = "failed") =>
          backups[last.name].doc.kind # "json"

C10_Witness ==
    /\ Restored
    /\ "tools" \notin DOMAIN RestoredData
    /\ "aliases" \in DOMAIN RestoredData
    /\ DOMAIN load_tools # {}
    /\ toolsFile = last.before[1]
    /\ aliasFile # last.before[3]

(***************************************************************************)
(* Helpers of the restore properties on a file system that refuses writes. *)
(***************************************************************************)
\* a confirmed restore reached its writes, whether or not one of them raised
RestoreWrote == Completed("backup_restore") /\ "before" \in DOMAIN last

\* the i-th store holds the copy of the snapshot
Applied(i) == stores[i] = json_dump(RestoredData[StoreKeys[i]])

\* the i-th store is the file it was before the restore
Kept(i) == stores[i] = last.before[i]

\* the stores the restored snapshot holds a copy of
Present == {i \in 1..3 : StoreKeys[i] \in DOMAIN RestoredData}

(***************************************************************************)
(* C11, as claimed: restore is atomic over the three stores; it applies    *)
(* every store present in the snapshot or none, also when a write fails    *)
(* partway through.                                                        *)
(***************************************************************************)
C11_RestoreAllOrNothing ==
    RestoreWrote => (\A i \in Present : Applied(i)) \/ (\A i \in 1..3 : Kept(i))

(***************************************************************************)
(* C11, amended: restore writes the stores present in the snapshot one     *)
(* after another, registry, then configuration, then aliases, and does not *)
(* roll back.  When no write fails every store present is applied.  When   *)
(* the write of one store fails, the stores written before it hold the     *)
(* snapshot's copy, the failing store is as it was or is left unreadable,  *)
(* the stores after it are as they were, and the restore reports failure.  *)
(***************************************************************************)
C11_RestoreAppliesPrefix ==
    RestoreWrote =>
        LET k == last.failed_at IN
        /\ (last.out = "ok") = (k = 0)
        /\ \A i \in 1..3 :
              IF i \notin Present THEN Kept(i)
              ELSE IF k = 0 \/ i < k THEN Applied(i)
              ELSE IF i = k THEN Kept(i) \/ stores[i] = Malformed
              ELSE Kept(i)

\* the write of the configuration failed: the registry is the snapshot's, the
\* aliases are not
C11_Witness ==
    /\ RestoreWrote
    /\ last.failed_at = 2
    /\ Present = {1, 2, 3}
    /\ Applied(1) /\ ~Kept(1)
    /\ Kept(3) /\ ~Applied(3)

(***************************************************************************)
(* Helpers of the snapshot properties next to another invocation.          *)
(***************************************************************************)
\* backup create wrote a snapshot; `last.history` are the contents the three
\* stores had, moment after moment, while it ran
Snapshotted == Completed("backup_create") /\ last.out = "ok" /\ "history" \in DOMAIN last

\* the copies embedded in the snapshot just written
Embedded == LET d == backups[last.name].doc.val IN <<d.tools, d.config, d.aliases>>

(***************************************************************************)
(* C12, as claimed: the three copies embedded in a snapshot are the        *)
(* contents the three stores had at one common moment, also when another   *)
(* invocation writes to a store while create runs.                         *)
(***************************************************************************)
C12_SnapshotAtOneInstant ==
    Snapshotted => \E m \in 1..Len(last.history) : Embedded = last.history[m]

(***************************************************************************)
(* C12, amended: each copy embedded in a snapshot is the content its store *)
(* had at the moment create loaded it; the registry is loaded first, then  *)
(* the configuration, then the aliases.  When no other invocation writes   *)
(* to a store while create runs, the three copies are the contents the     *)
(* stores had at one common moment.                                        *)
(***************************************************************************)
C12_SnapshotOfSuccessiveReads ==
    Snapshotted =>
        /\ \E m1, m2, m3 \in 1..Len(last.history) :
              /\ m1 <= m2 /\ m2 <= m3
              /\ Embedded[1] = last.history[m1][1]
              /\ Embedded[2] = last.history[m2][2]
              /\ Embedded[3] = last.history[m3][3]
        /\ Len(last.history) = 1 => Embedded = last.history[1]

\* another invocation wrote the configuration and the aliases while create ran,
\* and the snapshot holds the old configuration with the new aliases
C12_Witness ==
    /\ Snapshotted
    /\ Len(last.history) = 3
    /\ Embedded[2] = last.history[1][2]
    /\ Embedded[2] # last.history[3][2]
    /\ Embedded[3] = last.history[3][3]
    /\ Embedded[3] # last.history[1][3]

(***************************************************************************)
(* C13: backup restore without a name selects, among the snapshot files,   *)
(* the one with the latest modification time, also when another snapshot   *)
(* embeds a later creation timestamp.                                      *)
(***************************************************************************)
C13_RestorePicksLatestMtime ==
    (Completed("backup_restore") /\ last.arg = None /\ last.out # "no_backups") =>
        /\ last.name \in DOMAIN backups
        /\ \A c \in DOMAIN backups : backups[c].mtime <= backups[last.name].mtime

\* the snapshot selected was created before another one and modified after it
C13_Witness ==
    /\ Completed("backup_restore")
    /\ last.arg = None
    /\ last.out = "ok"
    /\ \E c \in DOMAIN backups :
          /\ backups[c].doc.val.created_at > backups[last.name].doc.val.created_at
          /\ backups[c].mtime < backups[last.name].mtime

(***************************************************************************)
(* Helpers of the naming properties.                                       *)
(***************************************************************************)
\* backup create without a name named a snapshot
AutoNamed == Completed("backup_create") /\ last.arg = None /\ last.out # "failed"

\* the snapshots other than the one just named
Others == (DOMAIN backups) \ {last.name}

\* the greatest element of a set of naturals, 0 for the empty set
MaxOr0(S) == IF S = {} THEN 0 ELSE SetMax(S)

C15_CreateStep ==
    (last' # last /\ last'.op = "backup_create" /\ last'.existed) =>
        /\ last'.response # "y" => (last'.out = "declined" /\ UNCHANGED files)
        /\ backups' # backups => last'.response = "y"

C15_OverwriteNeedsConfirmation == [][C15_CreateStep]_vars

\* the caller declined, and the snapshot kept differs from what create would write
C15_Witness ==
    /\ Completed("backup_create")
    /\ last.existed
    /\ last.out = "declined"
    /\ backups[last.name].doc.val.aliases # load_aliases

(***************************************************************************)
(* C16: backup restore changes a store only after the prompt was answered  *)
(* yes (typed, or accepted as the default answer); when the answer is      *)
(* anything else, the registry, the configuration, the aliases and every   *)
(* other file are unchanged.                                               *)
(***************************************************************************)
C16_RestoreStep ==
    (last' # last /\ last'.op = "backup_restore") =>
        /\ stores' # stores => ("response" \in DOMAIN last' /\ last'.response = "y")
        /\ last'.out = "declined" => (last'.response # "y" /\ UNCHANGED files)

C17_SnapshotHoldsAllStores ==
    /\ \A b \in DOMAIN backups :
          backups[b].doc.fmt = "dump" =>
              DOMAIN backups[b].doc.val = {"created_at", "tools", "config", "aliases"}
    /\ (Completed("backup_create") /\ last.out = "ok") =>
          /\ RestoredData.created_at = last.at
          /\ \A i \in 1..3 :
                /\ RestoredData[StoreKeys[i]] = load_store(stores[i])
                /\ stores[i].kind \in {"absent", "malformed"}
                      => RestoredData[StoreKeys[i]] = EmptyMap

C17_Witness ==
    /\ Completed("backup_create")
    /\ last.out = "ok"
    /\ toolsFile.kind = "malformed"
    /\ aliasFile.kind = "absent"
    /\ DOMAIN load_config # {}
    /\ DOMAIN RestoredData = {"created_at", "tools", "config", "aliases"}

(***************************************************************************)
(* Helpers of the resolver properties.                                     *)
(***************************************************************************)
\* download_update resolved a release-mode target and has not downloaded yet
Resolved == run.phase = "Downloading" /\ run.branch = None

\* the assets the latest release of a tool lists
AssetsOf(name) == remote[name].assets

\* the rule of the host: the name, lower-cased, ends in .exe on Windows, in
\* .tar.gz or .zip on any other host
Wanted(sys, asset_name) ==
    LET n == Lower(asset_name) IN
    IF sys = "windows" THEN EndsWith(n, <<".exe">>)
    ELSE EndsWith(n, <<".tar", ".gz">>) \/ EndsWith(n, <<".zip">>)

\* the positions of the assets of a tool that the host wants
Matching(name) == {i \in 1..Len(AssetsOf(name)) : Wanted(system, AssetsOf(name)[i].name)}

SetMin(S) == CHOOSE x \in S : \A y \in S : x <= y

\* the tag of the latest release of a tool
TagOf(name) ==
    IF "tag_name" \in DOMAIN remote[name] THEN remote[name].tag_name ELSE <<"latest">>

\* the latest release of a tool has a source archive
HasArchive(name) ==
    "zipball_url" \in DOMAIN remote[name] /\ remote[name].zipball_url # ""

(***************************************************************************)
(* C18: release-mode asset selection takes the first asset, in listed      *)
(* order, whose name (compared in lower case) ends in .exe on a Windows    *)
(* host, in .tar.gz or .zip on any other host; no later asset is preferred *)
(* over an earlier matching one.                                           *)
(***************************************************************************)
C18_FirstMatchingAssetWins ==
    (Resolved /\ Matching(run.name) # {}) =>
        LET k == SetMin(Matching(run.name)) IN
        /\ run.url = AssetsOf(run.name)[k].browser_download_url
        /\ \A j \in Matching(run.name) :
              j > k => run.url # AssetsOf(run.name)[j].browser_download_url

\* two assets match, the first of them is not the first of the list
C18_Witness ==
    /\ Resolved
    /\ Cardinality(Matching(run.name)) >= 2
    /\ SetMin(Matching(run.name)) > 1

(***************************************************************************)
(* C19: when no asset of the latest release matches the host, the resolver *)
(* falls back to the source archive of the release; when the release has   *)
(* none, the operation fails with NoReleaseFound, nothing is downloaded    *)
(* and the registry and every other file are unchanged.                    *)
(***************************************************************************)
C19_FallbackState ==
    /\ (Resolved /\ Matching(run.name) = {}) =>
          (HasArchive(run.name) /\ run.url = remote[run.name].zipball_url)
    /\ (Completed("install") /\ last.reason = "NoReleaseFound") =>
          /\ Matching(last.name) = {}
          /\ ~HasArchive(last.name)
          /\ last.nDl = 0

C19_FailureStep ==
    (last' # last /\ last'.op = "install" /\ last'.reason = "NoReleaseFound") => UNCHANGED files

C19_ArchiveFallbackOrNoRelease == []C19_FallbackState /\ [][C19_FailureStep]_vars

\* the release lists assets, none for this host, and no source archive, and
\* another tool is registered
C19_Witness ==
    /\ Completed("install")
    /\ last.reason = "NoReleaseFound"
    /\ Len(AssetsOf(last.name)) > 0
    /\ DOMAIN load_tools # {}

(***************************************************************************)
(* C20: in release mode the resolved tag is the tag field of the release,  *)
(* or "latest" when the field is absent; the file name is                  *)
(* <name>-<tag>-<assetName> when an asset matched and <name>-<tag>.zip for *)
(* the source archive; the version recorded in the registry is that tag.   *)
(***************************************************************************)
C20_TagAndFileName ==
    /\ Resolved =>
          /\ run.tag = TagOf(run.name)
          /\ run.dest =
                IF Matching(run.name) # {}
                THEN run.name \o <<"-">> \o TagOf(run.name) \o <<"-">>
                        \o AssetsOf(run.name)[SetMin(Matching(run.name))].name
                ELSE run.name \o <<"-">> \o TagOf(run.name) \o <<".zip">>
    /\ (Completed("install") /\ last.out = "ok" /\ last.branch = None) =>
          load_tools[last.name].version = TagOf(last.name)

\* a release without a tag, installed from its asset in upper case
C20_Witness ==
    /\ Completed("install")
    /\ last.out = "ok"
    /\ "tag_name" \notin DOMAIN remote[last.name]
    /\ load_tools[last.name].version = <<"latest">>
    /\ last.dest = PathOf(Cwd, <<"alpha", "-", "latest", "-", "setup", ".EXE">>)

(***************************************************************************)
(* C21: with a branch supplied, install makes no metadata request, its     *)
(* only network request is the download of the archive; the version        *)
(* recorded is branch-<branch>, the file is <name>-<branch>.zip in the     *)
(* download directory, and the record carries the branch.                  *)
(***************************************************************************)
C21_BranchMode ==
    /\ (run.phase # "Idle" /\ run.branch # None) => run.nMeta = 0
    /\ (Completed("install") /\ last.branch # None /\ last.out # "ok") =>
          (last.nMeta = 0 /\ last.nDl <= 1)
    /\ (Completed("install") /\ last.branch # None /\ last.out = "ok") =>
          /\ last.nMeta = 0
          /\ last.nDl = 1
          /\ last.name \in DOMAIN load_tools
          /\ load_tools[last.name].version = <<"branch-">> \o last.branch
          /\ load_tools[last.name].file
                = PathOf(get_download_dir, last.name \o <<"-">> \o last.branch \o <<".zip">>)
          /\ "branch" \in DOMAIN load_tools[last.name]
          /\ load_tools[last.name].branch = last.branch

C21_Witness ==
    /\ Completed("install")
    /\ last.out = "ok"
    /\ last.branch = <<"dev">>
    /\ load_tools[last.name].version = <<"branch-", "dev">>
    /\ get_download_dir = "d1"

(***************************************************************************)
(* C22: install, update and update --all fail with InvalidTarget before    *)
(* any network request when the name is empty or an excluded repository,   *)
(* and change no state: no request is made for such a name, a command      *)
(* given such a name ends failed with InvalidTarget, and the registry      *)
(* never holds an excluded name.                                           *)
(***************************************************************************)
InvalidTargets == EXCLUDED_REPOS \cup {None}

C22_InvalidTargetBeforeNetwork ==
    /\ (run.phase # "Idle" /\ run.name \in InvalidTargets) =>
          (run.nMeta = 0 /\ run.nDl = 0)
    /\ \A op \in {"install", "update"} :
          (Completed(op) /\ last.name \in InvalidTargets) =>
              /\ last.out = "failed"
              /\ last.reason = "InvalidTarget"
              /\ last.nMeta = 0
              /\ last.nDl = 0
    /\ DOMAIN load_tools \cap EXCLUDED_REPOS = {}

(***************************************************************************)
(* C23: a remote failure in the metadata request or in the download of     *)
(* install or update is propagated: the command ends failed and never      *)
(* reports success, and the registry is as it was.  A command that ends    *)
(* with the reason RemoteUnavailable ends failed; the registry is written  *)
(* by a pipeline only in its last step, after one download that left the   *)
(* whole artifact on disk, and that step ends the command with success; a  *)
(* step that ends a pipeline in failure leaves the registry alone.         *)
(***************************************************************************)
PipelineOps == {"install", "update"}

C23_RemoteFailurePropagates ==
    /\ [](\A op \in PipelineOps :
            /\ (Completed(op) /\ last.reason = "RemoteUnavailable") =>
                   (last.out = "failed" /\ last.phase = "Failed")
            /\ (Completed(op) /\ last.out = "ok") =>
                   (last.reason = "" /\ last.nDl = 1 /\ last.phase = "Done"))
    /\ [][run.phase # "Idle" =>
            /\ toolsFile' # toolsFile =>
                  /\ run.phase = "Persisting"
                  /\ run.nDl = 1
                  /\ run.dest \in DOMAIN disk
                  /\ disk[run.dest] = "full"
                  /\ run' = Idle
                  /\ ~batch.active => last'.out = "ok"
                  /\ batch.active => batch'.outcomes[run.name] = "ok"
            /\ (run' = Idle /\ ~batch.active /\ last'.out = "failed") =>
                  toolsFile' = toolsFile
            /\ (run' = Idle /\ batch.active /\ batch'.outcomes[run.name] = "failed") =>
                  toolsFile' = toolsFile]_vars

C23_Witness ==
    /\ Completed("update")
    /\ last.out = "failed"
    /\ last.reason = "RemoteUnavailable"
    /\ last.nDl = 1
    /\ last.dest \in DOMAIN disk
    /\ disk[last.dest] = "partial"
    /\ last.name \in DOMAIN load_tools
    /\ load_tools[last.name].version = last.local

(***************************************************************************)
(* C24: an operation on a tool absent from the registry ends in the        *)
(* NotInstalled error: update of a name with no record downloads nothing   *)
(* and adds no record, and remove of such a name is reported as a failure  *)
(* with the registry unchanged.                                            *)
(***************************************************************************)
C24_NotInstalledOutcome ==
    /\ (Completed("update") /\ last.name # None /\ last.local = None) =>
          /\ last.out = "failed"
          /\ last.nDl = 0
          /\ last.name \notin DOMAIN load_tools
    /\ (Completed("remove") /\ last.name \notin DOMAIN load_tools /\ ~last.dry_run) =>
          last.out = "failed"

(***************************************************************************)
(* C24, as the code has it: update of a name with no record installs the   *)
(* latest release of the tool: after the request of update_single it runs  *)
(* download_update, so that success means two metadata requests, one       *)
(* download and a new record with the resolved tag and no branch; it fails *)
(* only as an install fails.  remove of a name with no record warns,       *)
(* changes neither the registry nor the disk, and is not a failure.        *)
(***************************************************************************)
C24_UpdateOfAbsentInstalls ==
    /\ []((Completed("update") /\ last.name # None /\ last.local = None) =>
            /\ last.out \in {"ok", "failed"}
            /\ last.out = "failed" => last.reason \in {"RemoteUnavailable", "NoReleaseFound"}
            /\ last.out = "ok" =>
                  /\ last.nMeta = 2
                  /\ last.nDl = 1
                  /\ last.name \in DOMAIN load_tools
                  /\ load_tools[last.name].version = last.tag
                  /\ load_tools[last.name].file = last.dest
                  /\ "branch" \notin DOMAIN load_tools[last.name])
    /\ [][(last' # last /\ last'.op = "remove" /\ last'.name \notin DOMAIN load_tools) =>
            /\ last'.out = "not_installed"
            /\ UNCHANGED <<toolsFile, disk>>]_vars

C24_Witness ==
    /\ Completed("update")
    /\ last.local = None
    /\ last.name # None
    /\ last.out = "ok"
    /\ last.name \in DOMAIN load_tools

C26_LaterWriterOverwrites ==
    Completed("race") =>
        /\ \A i \in 1..2 : last.inv[i].out \in {"ok", "removed", "not_installed"}
        /\ last.order = <<>> => load_tools = last.before
        /\ last.order # <<>> =>
              LET w == last.inv[last.order[Len(last.order)]]
              IN  /\ w.op = "install" =>
                        /\ DOMAIN load_tools = DOMAIN w.tools \cup {w.name}
                        /\ \A n \in DOMAIN w.tools \ {w.name} : load_tools[n] = w.tools[n]
                        /\ load_tools[w.name].version = w.tag
                  /\ w.op = "remove" => load_tools = Pop(w.tools, w.name)

\* two installs of different tools on an empty registry, both ended well, and
\* one of the two records is in the registry
C26_Witness ==
    /\ Completed("race")
    /\ last.before = EmptyMap
    /\ \A i \in 1..2 : last.inv[i].op = "install" /\ last.inv[i].out = "ok"
    /\ last.inv[1].name # last.inv[2].name
    /\ Cardinality(DOMAIN load_tools) = 1

(***************************************************************************)
(* C27: check(name) is read-only: registry, config, aliases, snapshots and *)
(* artifact files are as they were; unless the request fails it reports    *)
(* the latest tag of the remote, it reports up-to-date exactly when the    *)
(* tool has a record whose version equals that tag, and for a tool with no *)
(* record it reports the remote version and no local version.              *)
(***************************************************************************)
C27_CheckReadOnly ==
    [][(last' # last /\ last'.op = "check") =>
          /\ UNCHANGED <<toolsFile, configFile, aliasFile, backups, disk>>
          /\ last'.out # "failed" =>
                LET name == last'.name
                    tag == IF "tag_name" \in DOMAIN remote[name]
                           THEN remote[name].tag_name ELSE <<"latest">>
                IN  /\ last'.remote = tag
                    /\ last'.out = "uptodate" <=>
                          (name \in DOMAIN load_tools /\ load_tools[name].version = tag)
                    /\ name \notin DOMAIN load_tools =>
                          (last'.out = "not_installed" /\ last'.local = None)
                    /\ (name \in DOMAIN load_tools /\ load_tools[name].version # tag) =>
                          (last'.out = "outdated" /\ last'.local = load_tools[name].version)]_vars

C27_Witness ==
    /\ Completed("check")
    /\ last.out = "uptodate"
    /\ last.name \in DOMAIN load_tools
    /\ last.remote = load_tools[last.name].version
    /\ last.remote # <<"v1">>

(***************************************************************************)
(* C28: backup delete of a name removes exactly the named snapshot; backup *)
(* delete --all removes every snapshot, and only after the prompt was      *)
(* answered with yes: none is removed when it is declined; neither changes *)
(* the registry, the config, the aliases or the artifact files.            *)
(***************************************************************************)
C28_DeleteExactly ==
    [][(last' # last /\ last'.op = "backup_delete") =>
          /\ UNCHANGED <<toolsFile, configFile, aliasFile, disk>>
          /\ (~last'.all /\ last'.name \in DOMAIN backups) =>
                /\ last'.out = "ok"
                /\ DOMAIN backups' = DOMAIN backups \ {last'.name}
                /\ \A b \in DOMAIN backups' : backups'[b] = backups[b]
          /\ (~last'.all /\ last'.name \notin DOMAIN backups) => backups' = backups
          /\ (last'.all /\ backups # EmptyMap /\ last'.response \in {"y", "Y"}) =>
                (last'.out = "ok" /\ backups' = EmptyMap)
          /\ (last'.all /\ last'.response \notin {"y", "Y"}) =>
                (last'.out # "ok" /\ backups' = backups)
          /\ last'.out # "ok" => backups' = backups]_vars

C28_Witness ==
    /\ Completed("backup_delete")
    /\ last.all
    /\ last.out = "ok"
    /\ last.count = 2
    /\ backups = EmptyMap
    /\ load_config # EmptyMap

(***************************************************************************)
(* C29: an install run goes through Idle, Resolving, Downloading,          *)
(* Persisting, Done in that order: a download starts only after the        *)
(* resolution has given a tag, a URL and a file name, the registry is      *)
(* written only in Persisting, after the whole artifact is on disk, Failed *)
(* is entered from Resolving, Downloading or Persisting (and, for an       *)
(* excluded name, before Resolving), and a run that is Done or Failed does *)
(* nothing more.                                                           *)
(***************************************************************************)
C29_PhaseOrder ==
    /\ [](run.phase \in {"Idle", "Resolving", "Downloading", "Persisting"})
    /\ [][/\ run'.phase # run.phase =>
                \/ run.phase = "Idle" /\ run'.phase = "Resolving"
                \/ run.phase = "Resolving" /\ run'.phase = "Downloading"
                      /\ run'.tag # None /\ run'.url # "" /\ run'.dest # None
                \/ run.phase = "Downloading" /\ run'.phase = "Persisting"
                      /\ run'.dest \in DOMAIN disk' /\ disk'[run'.dest] = "full"
                \/ run.phase \in {"Resolving", "Downloading"} /\ run'.phase = "Idle"
                      /\ last'.phase = "Failed" /\ last'.at = run.at
                \/ run.phase = "Persisting" /\ run'.phase = "Idle"
                      /\ last'.phase \in {"Done", "Failed"} /\ last'.at = run.at
          /\ (last' # last /\ last'.op = "install") =>
                \/ run.phase = "Idle" /\ run' = run /\ last'.phase = "Failed"
                \/ run.phase # "Idle" /\ run' = Idle /\ last'.phase \in {"Done", "Failed"}
          /\ (last' # last /\ last'.op = "install" /\ last'.phase = "Done") =>
                run.phase = "Persisting"
          /\ toolsFile' # toolsFile =>
                /\ run.phase = "Persisting"
                /\ run.dest \in DOMAIN disk
                /\ disk[run.dest] = "full"
          /\ run.phase = "Idle" => UNCHANGED <<toolsFile, disk>>]_vars

\* an install that failed in Persisting, after its resolution and its download
C29_Witness ==
    /\ Completed("install")
    /\ last.phase = "Failed"
    /\ last.reason = "FileSystemError"
    /\ last.nMeta = 1
    /\ last.nDl = 1
    /\ last.dest \in DOMAIN disk

(***************************************************************************)
(* C30: after a download that is interrupted or fails midway, the partial  *)
(* file left on disk is referenced by no registry entry, whatever the      *)
(* registry held before, also when the tool was installed already and the  *)
(* new download goes to the file of its record.                            *)
(***************************************************************************)
C30_PartialFileUnreferenced ==
    \A p \in DOMAIN disk :
        disk[p] = "partial" =>
            \A n \in DOMAIN load_tools : load_tools[n].file # p

(***************************************************************************)
(* C31: re-installation is idempotent: install(name, branch?) run twice in *)
(* succession against an unchanged remote leaves one record of name whose  *)
(* version, file path, os and branch are those written by the first run    *)
(* (installed_at may differ), and every other record as it was.            *)
(***************************************************************************)
\* the install that is about to write the registry repeats the command that
\* ended just before it, which succeeded
SecondInstall ==
    /\ run.phase = "Persisting"
    /\ run.op = "install"
    /\ last.op = "install"
    /\ last.out = "ok"
    /\ last.name = run.name
    /\ last.branch = run.branch

C31_ReinstallIdempotent ==
    [][SecondInstall =>
          LET old == load_tools
              new == load_store(toolsFile')
              name == run.name
          IN  /\ name \in DOMAIN old
              /\ DOMAIN new = DOMAIN old
              /\ \A n \in DOMAIN old \ {name} : new[n] = old[n]
              /\ DOMAIN new[name] = DOMAIN old[name]
              /\ \A f \in DOMAIN old[name] \ {"installed_at"} : new[name][f] = old[name][f]]_vars

C31_Witness ==
    /\ SecondInstall
    /\ run.branch = None
    /\ DOMAIN load_tools = {<<"alpha">>, <<"beta">>}
    /\ load_tools[run.name].installed_at < clock

(***************************************************************************)
(* C32: within one invocation a successful install or update of a tool     *)
(* reads the registry again just before it writes it and replaces only the *)
(* record of that tool, wholesale: the record of every other tool is the   *)
(* same before and after the write, and the new record keeps no field of   *)
(* the old one (a release install over a branch install has no branch).    *)
(***************************************************************************)
C32_UpsertReplacesOneRecord ==
    [][run.phase = "Persisting" =>
          LET old == load_tools
              new == load_store(toolsFile')
              name == run.name
          IN  /\ toolsFile'.kind = "json"
              /\ DOMAIN new = DOMAIN old \cup {name}
              /\ \A n \in DOMAIN old \ {name} : new[n] = old[n]
              /\ DOMAIN new[name] = {"version", "file", "os", "installed_at"}
                                       \cup (IF run.branch # None THEN {"branch"} ELSE {})
              /\ new[name].version = run.tag
              /\ new[name].file = run.dest
              /\ new[name].os = system
              /\ new[name].installed_at = clock
              /\ run.branch # None => new[name].branch = run.branch]_vars

\* an update over a branch install, next to the record of another tool
C32_Witness ==
    /\ Completed("update")
    /\ last.out = "ok"
    /\ last.local = <<"branch-", "dev">>
    /\ DOMAIN load_tools = Tools
    /\ "branch" \notin DOMAIN load_tools[last.name]

(***************************************************************************)
(* C33: backup create with no name succeeds and names the snapshot         *)
(* backup_1 whenever no existing snapshot has a numeric index N in the     *)
(* backup_<N> pattern, also when the directory holds only snapshots such   *)
(* as backup_old, whose suffix is not a number.                            *)
(***************************************************************************)
C33_AutoNameStartsAtOne ==
    [][(/\ last' # last
        /\ last'.op = "backup_create"
        /\ last'.arg = None
        /\ \A b \in existing_backups : ~isdigit(b[2])) =>
          /\ last'.out = "ok"
          /\ last'.name = <<"backup", "1">>
          /\ <<"backup", "1">> \in DOMAIN backups']_vars

(***************************************************************************)
(* C34: config keys with the internal prefix are never shown by config     *)
(* list and are kept by the bulk delete: after config delete --all every   *)
(* internal key that was present is still present with the same value,     *)
(* and every other key is gone.                                            *)
(***************************************************************************)
C34_InternalKeysKept ==
    [][/\ (last' # last /\ last'.op = "config_list") =>
             \A k \in DOMAIN last'.rows : ~startswith_underscore(k)
       /\ (last' # last /\ last'.op = "config_delete" /\ last'.all) =>
             LET old == load_config
                 new == load_store(configFile')
             IN  /\ \A k \in DOMAIN old :
                       startswith_underscore(k) => (k \in DOMAIN new /\ new[k] = old[k])
                 /\ \A k \in DOMAIN new : startswith_underscore(k)]_vars

(***************************************************************************)
(* C35: a snapshot is immutable once written: no operation changes the     *)
(* content of an existing snapshot file, and a snapshot only disappears    *)
(* through an explicit backup delete.                                      *)
(***************************************************************************)
C35_SnapshotImmutable ==
    [][\A b \in DOMAIN backups :
          /\ b \in DOMAIN backups' => backups'[b] = backups[b]
          /\ b \notin DOMAIN backups' =>
                (last'.op = "backup_delete" /\ last'.out = "ok")]_vars

(***************************************************************************)
(* C35, as the code has it: install, update, update --all, remove, check,  *)
(* restore, list and the config, debug and alias commands leave every      *)
(* snapshot file as it is.  The content of an existing snapshot changes    *)
(* only when backup create is given (or computes) its name and the         *)
(* overwrite is confirmed with y; a snapshot disappears only through a     *)
(* backup delete of its name or of all after a yes, or when uninstall-self *)
(* deletes the configuration directory after a yes.                        *)
(***************************************************************************)
C35_SnapshotChangesOnlyByOverwrite ==
    [][\A b \in DOMAIN backups :
          /\ (b \in DOMAIN backups' /\ backups'[b] # backups[b]) =>
                /\ last' # last
                /\ last'.op = "backup_create"
                /\ last'.out = "ok"
                /\ last'.name = b
                /\ last'.existed
                /\ last'.response = "y"
          /\ b \notin DOMAIN backups' =>
                /\ last' # last
                /\ \/ /\ last'.op = "backup_delete"
                      /\ last'.out = "ok"
                      /\ IF last'.all THEN last'.response = "y" ELSE last'.name = b
                   \/ /\ last'.op = "uninstall_self"
                      /\ last'.out = "deleted"
                      /\ last'.response = "y"]_vars

\* an existing snapshot was overwritten after a yes, and holds other content
C35_Witness ==
    /\ Completed("backup_create")
    /\ last.out = "ok"
    /\ last.existed
    /\ last.response = "y"
    /\ backups[last.name].mtime = last.at
    /\ backups[last.name].doc.val.tools # EmptyMap

(***************************************************************************)
(* C36: an update that does not short-circuit resolves the version once:   *)
(* after a successful update(name) the version in the registry is the tag  *)
(* that update compared with the stored version and announced as the new   *)
(* version, also when the latest release of the remote changes while the   *)
(* update runs.                                                            *)
(***************************************************************************)
C36_UpdateRecordsAnnouncedTag ==
    (Completed("update") /\ last.out = "ok") =>
        /\ last.name \in DOMAIN load_tools
        /\ load_tools[last.name].version = last.seen

(***************************************************************************)
(* C37: after any sequence of installs and updates into one download       *)
(* directory no two registry records of different tools reference the same *)
(* file path, so that remove(name) never deletes a file that the record of *)
(* another tool references.                                                *)
(***************************************************************************)
C37_RecordsReferenceDistinctFiles ==
    /\ [](\A a \in DOMAIN load_tools : \A b \in DOMAIN load_tools :
            a # b => load_tools[a].file # load_tools[b].file)
    /\ [][(last' # last /\ last'.op = "remove" /\ last'.out = "removed") =>
            \A n \in DOMAIN load_store(toolsFile') :
                load_store(toolsFile')[n].file \in DOMAIN disk =>
                    load_store(toolsFile')[n].file \in DOMAIN disk']_vars

(***************************************************************************)
(* C38: for the same registry and the same release metadata, tools         *)
(* outdated flags a tool as having an update available exactly when        *)
(* check(name) reports an update available and update(name) does not       *)
(* short-circuit, also when the release metadata has no tag field.         *)
(***************************************************************************)
C38_OutdatedAgreesWithCheck ==
    [][(last' # last /\ last'.op = "outdated" /\ last'.out = "ok") =>
          \A n \in DOMAIN load_tools :
              last'.rows[n].status # "error" =>
                  LET local_version == Get(load_tools[n], "version", None)
                      tag == latest_tag(remote[n])
                  IN  /\ last'.rows[n].status = "outdated" <=>
                            check_outcome(local_version, tag) = "outdated"
                      /\ last'.rows[n].status = "outdated" <=> local_version # tag]_vars

(***************************************************************************)
(* C39: install and update never delete a file and write only the          *)
(* destination path of the current download: after a successful update to  *)
(* a different tag the artifact of the old record is still on disk (if it  *)
(* was there when the update started) and no registry record references    *)
(* it.                                                                     *)
(***************************************************************************)
C39_PipelineStep ==
    (run.phase # "Idle" \/ run'.phase # "Idle") =>
        /\ DOMAIN disk \subseteq DOMAIN disk'
        /\ \A p \in DOMAIN disk' :
              (p \notin DOMAIN disk \/ disk'[p] # disk[p]) =>
                  /\ run.phase = "Downloading"
                  /\ p = PathOf(get_download_dir, run.dest)
        /\ (/\ run.phase = "Persisting"
            /\ run.op = "update"
            /\ run.name \in DOMAIN load_tools
            /\ load_tools[run.name].version # run.tag) =>
                LET old == load_tools[run.name].file
                    new == load_store(toolsFile')
                IN  /\ old \in DOMAIN disk => (old \in DOMAIN disk' /\ disk'[old] = disk[old])
                    /\ \A n \in DOMAIN new : new[n].file # old

=============================================================================
